---- MODULE Spec2Model ----
(***************************************************************************)
(* A model of dbus-udisks2: the decoding of the UDisks2 managed-object     *)
(* graph held by DiskCache into Drive and Block entities (drive.rs,        *)
(* block.rs, utils.rs), the Disks view built from them (disks.rs) and the  *)
(* lookups of lib.rs.                                                      *)
(*                                                                         *)
(* Representation.                                                         *)
(*  - A Rust String is the sequence of its UTF-8 bytes; String's Ord is    *)
(*    the lexicographic order of those sequences (StrLess).                *)
(*  - Option<T> is a sequence of length at most one: None is <<>>,         *)
(*    Some(x) is <<x>>.                                                    *)
(*  - A dynamically typed bus value (dbus::arg::RefArg) is a record        *)
(*    [k, s, n, a]: k is its kind ("str", "u64", "arr", "other"), and s, n *)
(*    and a carry the string, the integer and the items of that kind.      *)
(*  - An interface's properties are a function from property names to      *)
(*    values; an object is a function from interface names to those.       *)
(*  - A HashMap has no specified iteration order: the cache is the         *)
(*    sequence of its entries in the order this map instance iterates.     *)
(*  - A call that panics (unwrap / expect on None) has the result tag      *)
(*    "Panic".                                                             *)
(***************************************************************************)
EXTENDS Integers, Sequences, FiniteSets, TLC

VARIABLES cache, out

vars == <<cache, out>>

(***************************************************************************)
(* Option, strings, sequences                                              *)
(***************************************************************************)
None == <<>>

Some(x) == <<x>>

IsSome(o) == Len(o) > 0

Unwrap(o) == o[1]

UnwrapOr(o, d) == IF IsSome(o) THEN o[1] ELSE d

EmptyString == <<>>

\* a < b in the order of Rust's String / Vec<u8>: lexicographic by byte.
RECURSIVE StrLess(_, _)
StrLess(a, b) ==
    IF b = <<>> THEN FALSE
    ELSE IF a = <<>> THEN TRUE
    ELSE IF a[1] # b[1] THEN a[1] < b[1]
    ELSE StrLess(Tail(a), Tail(b))

StrLeq(a, b) == a = b \/ StrLess(a, b)

Range(s) == {s[i] : i \in 1..Len(s)}

\* The permutations of the sequence s.
Perms(s) ==
    {[i \in 1..Len(s) |-> s[f[i]]] :
        f \in {g \in [1..Len(s) -> 1..Len(s)] : \A i, j \in 1..Len(s) : g[i] = g[j] => i = j}}

(***************************************************************************)
(* Dynamically typed values (dbus::arg::RefArg behind Variant<Box<..>>)    *)
(***************************************************************************)
VStr(s) == [k |-> "str", s |-> s, n |-> 0, a |-> <<>>]

VU64(n) == [k |-> "u64", s |-> <<>>, n |-> n, a |-> <<>>]

VArr(a) == [k |-> "arr", s |-> <<>>, n |-> 0, a |-> a]

\* A value that is neither a string, an unsigned integer nor a sequence
\* (a double, say): as_str, as_u64 and as_iter all answer None.
VOther == [k |-> "other", s |-> <<>>, n |-> 0, a |-> <<>>]

as_str(v) == IF v.k = "str" THEN Some(v.s) ELSE None

as_u64(v) == IF v.k = "u64" THEN Some(v.n) ELSE None

as_iter(v) == IF v.k = "arr" THEN Some(v.a) ELSE None

(***************************************************************************)
(* utils.rs                                                                *)
(***************************************************************************)
U8Modulus == 256

AsciiLimit == 128

get_string(arg) ==
    IF IsSome(as_str(arg)) /\ Unwrap(as_str(arg)) # EmptyString
    THEN Some(Unwrap(as_str(arg)))
    ELSE None

get_u64(arg) == UnwrapOr(as_u64(arg), 0)

get_bool(arg) == UnwrapOr(as_u64(arg), 0) # 0

\* items.flat_map(|item| item.as_str().map(String::from)).collect()
RECURSIVE StrItems(_)
StrItems(items) ==
    IF items = <<>> THEN <<>>
    ELSE as_str(Head(items)) \o StrItems(Tail(items))

get_string_array(arg) ==
    IF IsSome(as_iter(arg))
    THEN LET vector == StrItems(Unwrap(as_iter(arg)))
         IN IF vector = <<>> THEN None ELSE Some(vector)
    ELSE None

\* bytes.flat_map(|byte| byte.as_u64().map(|x| x as u8)).collect()
RECURSIVE ByteItems(_)
ByteItems(items) ==
    IF items = <<>> THEN <<>>
    ELSE (IF IsSome(as_u64(Head(items)))
          THEN <<Unwrap(as_u64(Head(items))) % U8Modulus>>
          ELSE <<>>) \o ByteItems(Tail(items))

\* The bytes are well-formed UTF-8: one to four bytes a character, no
\* overlong form, no surrogate, nothing above U+10FFFF.
RECURSIVE Utf8Valid(_)
Utf8Valid(b) ==
    IF b = <<>> THEN TRUE
    ELSE LET n == Len(b)
             c == b[1]
             Cont(i) == i <= n /\ b[i] \in 128..191
             Second(lo, hi) == n >= 2 /\ b[2] \in lo..hi
         IN IF c < AsciiLimit THEN Utf8Valid(Tail(b))
            ELSE IF c \in 194..223 THEN Cont(2) /\ Utf8Valid(SubSeq(b, 3, n))
            ELSE IF c = 224 THEN Second(160, 191) /\ Cont(3) /\ Utf8Valid(SubSeq(b, 4, n))
            ELSE IF c \in (225..236) \cup (238..239)
                 THEN Cont(2) /\ Cont(3) /\ Utf8Valid(SubSeq(b, 4, n))
            ELSE IF c = 237 THEN Second(128, 159) /\ Cont(3) /\ Utf8Valid(SubSeq(b, 4, n))
            ELSE IF c = 240
                 THEN Second(144, 191) /\ Cont(3) /\ Cont(4) /\ Utf8Valid(SubSeq(b, 5, n))
            ELSE IF c \in 241..243
                 THEN Cont(2) /\ Cont(3) /\ Cont(4) /\ Utf8Valid(SubSeq(b, 5, n))
            ELSE IF c = 244
                 THEN Second(128, 143) /\ Cont(3) /\ Cont(4) /\ Utf8Valid(SubSeq(b, 5, n))
            ELSE FALSE

\* String::from_utf8(..).ok(): a String is its UTF-8 bytes.
from_utf8(bytes) == IF Utf8Valid(bytes) THEN Some(bytes) ELSE None

\* inner_vec without any of its trailing zero bytes.
RECURSIVE StripZeros(_)
StripZeros(v) ==
    IF v # <<>> /\ v[Len(v)] = 0 THEN StripZeros(SubSeq(v, 1, Len(v) - 1)) ELSE v

\* atostr popping while the last byte is 0.
atostr_PopsEveryZero(array) ==
    IF IsSome(array) THEN from_utf8(StripZeros(ByteItems(Unwrap(array)))) ELSE None

\* array is Option<iterator>: None, or Some(the items).
atostr(array) ==
    IF IsSome(array)
    THEN LET inner_vec == ByteItems(Unwrap(array))
             popped == IF inner_vec # <<>> /\ inner_vec[Len(inner_vec)] = 0
                       THEN SubSeq(inner_vec, 1, Len(inner_vec) - 1)
                       ELSE inner_vec
         IN from_utf8(popped)
    ELSE None

get_byte_array(arg) == atostr(as_iter(arg))

\* value[0][0] as an iterator, each step None when the shape is wrong.
vva(value) ==
    LET l1 == as_iter(value)
        e1 == IF IsSome(l1) /\ Unwrap(l1) # <<>> THEN Some(Unwrap(l1)[1]) ELSE None
        l2 == IF IsSome(e1) THEN as_iter(Unwrap(e1)) ELSE None
        e2 == IF IsSome(l2) /\ Unwrap(l2) # <<>> THEN Some(Unwrap(l2)[1]) ELSE None
        viter == IF IsSome(e2) THEN as_iter(Unwrap(e2)) ELSE None
    IN atostr(viter)

\* items.flat_map(|item| atostr(item.as_iter())).collect()
RECURSIVE ByteArrayItems(_)
ByteArrayItems(items) ==
    IF items = <<>> THEN <<>>
    ELSE atostr(as_iter(Head(items))) \o ByteArrayItems(Tail(items))

get_array_of_byte_arrays(arg) ==
    IF IsSome(as_iter(arg))
    THEN LET vector == ByteArrayItems(Unwrap(as_iter(arg)))
         IN IF vector = <<>> THEN None ELSE Some(vector)
    ELSE None

(***************************************************************************)
(* Interface names, and the lookup of a property                           *)
(***************************************************************************)
IF_BLOCK == "org.freedesktop.UDisks2.Block"

IF_LOOP == "org.freedesktop.UDisks2.Loop"

IF_SWAPSPACE == "org.freedesktop.UDisks2.Swapspace"

IF_PARTITION_TABLE == "org.freedesktop.UDisks2.PartitionTable"

IF_PARTITION == "org.freedesktop.UDisks2.Partition"

IF_FILESYSTEM == "org.freedesktop.UDisks2.Filesystem"

IF_ENCRYPTED == "org.freedesktop.UDisks2.Encrypted"

IF_DRIVE == "org.freedesktop.UDisks2.Drive"

\* The arm of `match key.as_str()` for `key`, over a whole property map: the
\* loop visits every key once and each arm writes a field of its own, so the
\* field ends as the decoded value when the key is there and as the field's
\* default when it is not.
BoolArm(props, key) ==
    IF key \in DOMAIN props THEN get_bool(props[key]) ELSE FALSE

U64Arm(props, key) ==
    IF key \in DOMAIN props THEN get_u64(props[key]) ELSE 0

\* get_string(value).unwrap_or_default()
StringArm(props, key) ==
    IF key \in DOMAIN props THEN UnwrapOr(get_string(props[key]), EmptyString) ELSE EmptyString

\* get_string(value), into an Option<String> field
OptionStringArm(props, key) ==
    IF key \in DOMAIN props THEN get_string(props[key]) ELSE None

\* get_string_array(value).unwrap_or_default()
StringArrayArm(props, key) ==
    IF key \in DOMAIN props THEN UnwrapOr(get_string_array(props[key]), <<>>) ELSE <<>>

\* get_byte_array(value), where it does not panic
ByteArrayArm(props, key) ==
    IF key \in DOMAIN props THEN UnwrapOr(get_byte_array(props[key]), EmptyString) ELSE EmptyString

\* get_array_of_byte_arrays(value).unwrap_or_default()
PathsArm(props, key) ==
    IF key \in DOMAIN props
    THEN UnwrapOr(get_array_of_byte_arrays(props[key]), <<>>)
    ELSE <<>>

(***************************************************************************)
(* drive.rs                                                                *)
(***************************************************************************)
\* Drive::parse, on a Drive::default() whose path is set. rotation_rate
\* (`as i64`) is the value read: the model's integers stay far below 2^63.
DriveParse(path, props) ==
    [ path |-> path,
      can_power_off |-> BoolArm(props, "CanPowerOff"),
      connection_bus |-> StringArm(props, "ConnectionBus"),
      ejectable |-> BoolArm(props, "Ejectable"),
      id |-> StringArm(props, "Id"),
      media |-> OptionStringArm(props, "Media"),
      media_available |-> BoolArm(props, "MediaAvailable"),
      media_change_detected |-> BoolArm(props, "MediaChangeDetected"),
      media_compatibility |-> StringArrayArm(props, "MediaCompatibility"),
      media_removable |-> BoolArm(props, "MediaRemovable"),
      model |-> StringArm(props, "Model"),
      optical |-> BoolArm(props, "Optical"),
      optical_blank |-> BoolArm(props, "OpticalBlank"),
      optical_num_tracks |-> U64Arm(props, "OpticalNumTracks"),
      optical_num_audio_tracks |-> U64Arm(props, "OpticalNumAudioTracks"),
      optical_num_data_tracks |-> U64Arm(props, "OpticalNumDataTracks"),
      optical_num_sessions |-> U64Arm(props, "OpticalNumSessions"),
      removable |-> BoolArm(props, "Removable"),
      revision |-> StringArm(props, "Revision"),
      rotation_rate |-> U64Arm(props, "RotationRate"),
      seat |-> StringArm(props, "Seat"),
      serial |-> StringArm(props, "Serial"),
      sibling_id |-> StringArm(props, "SiblingId"),
      size |-> U64Arm(props, "Size"),
      sort_key |-> StringArm(props, "SortKey"),
      time_detected |-> U64Arm(props, "TimeDetected"),
      time_media_detected |-> U64Arm(props, "TimeMediaDetected"),
      vendor |-> StringArm(props, "Vendor"),
      wwn |-> StringArm(props, "WWN") ]

\* <Drive as ParseFrom>::parse_from: Option<Drive>.
DriveParseFrom(path, objects) ==
    IF IF_DRIVE \in DOMAIN objects
    THEN Some(DriveParse(path, objects[IF_DRIVE]))
    ELSE None

(***************************************************************************)
(* block.rs: the Configuration property                                    *)
(***************************************************************************)
K_fstab == <<102, 115, 116, 97, 98>>

K_crypttab == <<99, 114, 121, 112, 116, 116, 97, 98>>

K_fsname == <<102, 115, 110, 97, 109, 101>>

K_dir == <<100, 105, 114>>

K_type == <<116, 121, 112, 101>>

K_opts == <<111, 112, 116, 115>>

K_freq == <<102, 114, 101, 113>>

K_passno == <<112, 97, 115, 115, 110, 111>>

K_name == <<110, 97, 109, 101>>

K_device == <<100, 101, 118, 105, 99, 101>>

K_passphrase_path == <<112, 97, 115, 115, 112, 104, 114, 97, 115, 101, 45, 112, 97, 116, 104>>

K_options == <<111, 112, 116, 105, 111, 110, 115>>

BlockConfigurationFstabDefault ==
    [fsname |-> EmptyString, dir |-> EmptyString, type_ |-> EmptyString,
     opts |-> EmptyString, freq |-> 0, passno |-> 0]

BlockConfigurationCrypttabDefault ==
    [name |-> EmptyString, device |-> EmptyString,
     passphrase_path |-> EmptyString, options |-> EmptyString]

BlockConfigurationDefault ==
    [fstab |-> BlockConfigurationFstabDefault,
     crypttab |-> BlockConfigurationCrypttabDefault]

\* One (key, value) pair of an fstab entry. freq and passno (`as i32`) are
\* the value read: the model's integers stay far below 2^31.
FstabPair(fstab, key, value) ==
    IF ~IsSome(as_str(key)) THEN fstab
    ELSE LET k == Unwrap(as_str(key))
         IN CASE k = K_fsname -> [fstab EXCEPT !.fsname = UnwrapOr(vva(value), EmptyString)]
              [] k = K_dir -> [fstab EXCEPT !.dir = UnwrapOr(vva(value), EmptyString)]
              [] k = K_type -> [fstab EXCEPT !.type_ = UnwrapOr(vva(value), EmptyString)]
              [] k = K_opts -> [fstab EXCEPT !.opts = UnwrapOr(vva(value), EmptyString)]
              [] k = K_freq -> [fstab EXCEPT !.freq = UnwrapOr(as_u64(value), 0)]
              [] k = K_passno -> [fstab EXCEPT !.passno = UnwrapOr(as_u64(value), 0)]
              [] OTHER -> fstab

CrypttabPair(crypttab, key, value) ==
    IF ~IsSome(as_str(key)) THEN crypttab
    ELSE LET k == Unwrap(as_str(key))
         IN CASE k = K_name -> [crypttab EXCEPT !.name = UnwrapOr(vva(value), EmptyString)]
              [] k = K_device -> [crypttab EXCEPT !.device = UnwrapOr(vva(value), EmptyString)]
              [] k = K_passphrase_path ->
                    [crypttab EXCEPT !.passphrase_path = UnwrapOr(vva(value), EmptyString)]
              [] k = K_options -> [crypttab EXCEPT !.options = UnwrapOr(vva(value), EmptyString)]
              [] OTHER -> crypttab

\* while let (Some(key), Some(value)) = (array.next(), array.next())
RECURSIVE FstabWalk(_, _)
FstabWalk(fstab, array) ==
    IF Len(array) < 2 THEN fstab
    ELSE FstabWalk(FstabPair(fstab, array[1], array[2]), SubSeq(array, 3, Len(array)))

RECURSIVE CrypttabWalk(_, _)
CrypttabWalk(crypttab, array) ==
    IF Len(array) < 2 THEN crypttab
    ELSE CrypttabWalk(CrypttabPair(crypttab, array[1], array[2]), SubSeq(array, 3, Len(array)))

\* The body of `for value in value.as_iter().unwrap()` for one record.
ConfigurationRecord(configuration, value) ==
    LET outer == as_iter(value)
        inner == IF IsSome(outer) /\ Unwrap(outer) # <<>>
                 THEN as_iter(Unwrap(outer)[1])
                 ELSE None
        entry == IF IsSome(inner) THEN Unwrap(inner) ELSE <<>>
        key == IF Len(entry) >= 1 THEN as_str(entry[1]) ELSE None
        array == IF Len(entry) >= 2 THEN as_iter(entry[2]) ELSE None
    IN IF IsSome(key) /\ IsSome(array)
       THEN IF Unwrap(key) = K_fstab
            THEN [configuration EXCEPT !.fstab = FstabWalk(@, Unwrap(array))]
            ELSE IF Unwrap(key) = K_crypttab
            THEN [configuration EXCEPT !.crypttab = CrypttabWalk(@, Unwrap(array))]
            ELSE configuration
       ELSE configuration

RECURSIVE ConfigurationFold(_, _)
ConfigurationFold(configuration, items) ==
    IF items = <<>> THEN configuration
    ELSE ConfigurationFold(ConfigurationRecord(configuration, Head(items)), Tail(items))

\* The "Configuration" arm. A value that is no sequence panics in
\* as_iter().unwrap() (BlockArmsPanic); the field is then never read.
ConfigurationArm(value) ==
    IF IsSome(as_iter(value))
    THEN Some(ConfigurationFold(BlockConfigurationDefault, Unwrap(as_iter(value))))
    ELSE None

(***************************************************************************)
(* block.rs: the facets and Block::parse_from                              *)
(***************************************************************************)
\* Vec<String>::sort_unstable: equal strings cannot be told apart, so the
\* result is the one ascending arrangement; computed by insertion.
RECURSIVE InsertString(_, _)
InsertString(x, sorted) ==
    IF sorted = <<>> THEN <<x>>
    ELSE IF StrLeq(x, Head(sorted)) THEN <<x>> \o sorted
    ELSE <<Head(sorted)>> \o InsertString(x, Tail(sorted))

RECURSIVE sort_unstable(_)
sort_unstable(v) ==
    IF v = <<>> THEN <<>>
    ELSE InsertString(Head(v), sort_unstable(Tail(v)))

\* The "Partitions" arm without the sort.
PartitionsArm_NoSort(value) == UnwrapOr(get_string_array(value), <<>>)

\* The "Partitions" arm: get_string_array, then sort_unstable.
PartitionsArm(value) == sort_unstable(UnwrapOr(get_string_array(value), <<>>))

\* The "org.freedesktop.UDisks2.PartitionTable" arm.
PartitionTableParse(props) ==
    [ type_ |-> StringArm(props, "Type"),
      partitions |-> IF "Partitions" \in DOMAIN props
                     THEN PartitionsArm(props["Partitions"])
                     ELSE <<>> ]

\* The "org.freedesktop.UDisks2.Partition" arm. "Table" panics in expect()
\* when get_string is None (PartitionArmsPanic); number (`as u32`) is the
\* value read: the model's integers stay far below 2^32.
PartitionParse(props) ==
    [ type_ |-> StringArm(props, "Type"),
      name |-> StringArm(props, "Name"),
      uuid |-> StringArm(props, "UUID"),
      table |-> StringArm(props, "Table"),
      flags |-> U64Arm(props, "Flags"),
      offset |-> U64Arm(props, "Offset"),
      size |-> U64Arm(props, "Size"),
      number |-> U64Arm(props, "Number"),
      is_contained |-> BoolArm(props, "IsContained"),
      is_container |-> BoolArm(props, "IsContainer") ]

\* The "org.freedesktop.UDisks2.Encrypted" arm.
EncryptedParse(props) ==
    [ hint_encryption_type |-> StringArm(props, "HintEncryptionType"),
      metadata_size |-> U64Arm(props, "MetadataSize"),
      cleartext_device |-> StringArm(props, "CleartextDevice") ]

\* The Swapspace arm with `true` for a missing Active.
SwapspaceActive_DefaultTrue(props) ==
    IF "Active" \in DOMAIN props THEN get_bool(props["Active"]) ELSE TRUE

\* block.rs 229: object.get("Active").map_or(false, get_bool)
SwapspaceActive(props) == BoolArm(props, "Active")

\* The unwrap() / expect() calls of the Block arms: block.rs 72, 74, 76, 98, 115.
BlockArmsPanic(props) ==
    \/ "CryptoBackingDevice" \in DOMAIN props /\ ~IsSome(get_string(props["CryptoBackingDevice"]))
    \/ "Device" \in DOMAIN props /\ ~IsSome(get_byte_array(props["Device"]))
    \/ "Drive" \in DOMAIN props /\ ~IsSome(get_string(props["Drive"]))
    \/ "PreferredDevice" \in DOMAIN props /\ ~IsSome(get_byte_array(props["PreferredDevice"]))
    \/ "Configuration" \in DOMAIN props /\ ~IsSome(as_iter(props["Configuration"]))

\* expect("partition is not part of a table"): block.rs 262.
PartitionArmsPanic(objects) ==
    /\ IF_PARTITION \in DOMAIN objects
    /\ "Table" \in DOMAIN objects[IF_PARTITION]
    /\ ~IsSome(get_string(objects[IF_PARTITION]["Table"]))

MountPoints(props) == PathsArm(props, "MountPoints")

\* The Block that parse_from builds when no arm panics: the first loop over
\* the properties of the Block interface, the second over the interfaces.
BlockParse(path, objects) ==
    LET props == objects[IF_BLOCK]
    IN [ path |-> path,
         crypto_backing_device |-> StringArm(props, "CryptoBackingDevice"),
         device |-> ByteArrayArm(props, "Device"),
         device_number |-> U64Arm(props, "DeviceNumber"),
         drive |-> StringArm(props, "Drive"),
         hint_auto |-> BoolArm(props, "HintAuto"),
         hint_icon_name |-> OptionStringArm(props, "HintIconName"),
         hint_ignore |-> BoolArm(props, "HintIgnore"),
         hint_name |-> OptionStringArm(props, "HintName"),
         hint_partitionable |-> BoolArm(props, "HintPartitionable"),
         hint_symbolic_icon_name |-> OptionStringArm(props, "HintSymbolicIconName"),
         hint_system |-> BoolArm(props, "HintSystem"),
         id |-> StringArm(props, "Id"),
         id_label |-> OptionStringArm(props, "IdLabel"),
         id_type |-> OptionStringArm(props, "IdType"),
         id_usage |-> OptionStringArm(props, "IdUsage"),
         id_uuid |-> OptionStringArm(props, "IdUUID"),
         id_version |-> OptionStringArm(props, "IdVersion"),
         loopback |-> FALSE,
         mdraid |-> StringArm(props, "MDRaid"),
         mdraid_member |-> StringArm(props, "MDRaidMember"),
         preferred_device |-> ByteArrayArm(props, "PreferredDevice"),
         read_only |-> BoolArm(props, "ReadOnly"),
         size |-> U64Arm(props, "Size"),
         symlinks |-> PathsArm(props, "Symlinks"),
         userspace_mount_options |->
             StringArrayArm(props, "UserspaceMountOptions"),
         configuration |-> (IF "Configuration" \in DOMAIN props
                           THEN ConfigurationArm(props["Configuration"]) ELSE None),
         swapspace |-> IF IF_SWAPSPACE \in DOMAIN objects
                       THEN Some(SwapspaceActive(objects[IF_SWAPSPACE]))
                       ELSE None,
         table |-> IF IF_PARTITION_TABLE \in DOMAIN objects
                       THEN Some(PartitionTableParse(objects[IF_PARTITION_TABLE]))
                       ELSE None,
         partition |-> IF IF_PARTITION \in DOMAIN objects
                       THEN Some(PartitionParse(objects[IF_PARTITION]))
                       ELSE None,
         mount_points |-> IF IF_FILESYSTEM \in DOMAIN objects
                          THEN MountPoints(objects[IF_FILESYSTEM])
                          ELSE <<>>,
         encrypted |-> IF IF_ENCRYPTED \in DOMAIN objects
                       THEN Some(EncryptedParse(objects[IF_ENCRYPTED]))
                       ELSE None ]

\* The keys that the `match key.as_str()` of each interface names.
BlockKeys ==
    {"CryptoBackingDevice", "Device", "DeviceNumber", "Drive", "HintAuto", "HintIconName",
     "HintIgnore", "HintName", "HintPartitionable", "HintSymbolicIconName", "HintSystem",
     "Id", "IdLabel", "IdType", "IdUsage", "IdUUID", "IdVersion", "MDRaid", "MDRaidMember",
     "PreferredDevice", "ReadOnly", "Size", "Symlinks", "UserspaceMountOptions",
     "Configuration"}

PartitionTableKeys == {"Type", "Partitions"}

PartitionKeys ==
    {"Type", "Name", "UUID", "Table", "Flags", "Offset", "Size", "Number", "IsContained",
     "IsContainer"}

EncryptedKeys == {"HintEncryptionType", "MetadataSize", "CleartextDevice"}

DriveKeys ==
    {"CanPowerOff", "ConnectionBus", "Ejectable", "Id", "Media", "MediaAvailable",
     "MediaChangeDetected", "MediaCompatibility", "MediaRemovable", "Model", "Optical",
     "OpticalBlank", "OpticalNumTracks", "OpticalNumAudioTracks", "OpticalNumDataTracks",
     "OpticalNumSessions", "Removable", "Revision", "RotationRate", "Seat", "Serial",
     "SiblingId", "Size", "SortKey", "TimeDetected", "TimeMediaDetected", "Vendor", "WWN"}

\* The interfaces that the decoders name.
KnownInterfaces ==
    {IF_BLOCK, IF_LOOP, IF_SWAPSPACE, IF_PARTITION_TABLE, IF_PARTITION, IF_FILESYSTEM,
     IF_ENCRYPTED, IF_DRIVE}

\* The keys of an interface that its decoder reads.
RecognizedKeys(interface) ==
    CASE interface = IF_BLOCK -> BlockKeys
      [] interface = IF_PARTITION_TABLE -> PartitionTableKeys
      [] interface = IF_PARTITION -> PartitionKeys
      [] interface = IF_ENCRYPTED -> EncryptedKeys
      [] interface = IF_DRIVE -> DriveKeys
      [] interface = IF_SWAPSPACE -> {"Active"}
      [] interface = IF_FILESYSTEM -> {"MountPoints"}
      [] OTHER -> {}

\* <Block as ParseFrom>::parse_from. The result is [tag, block]: "None",
\* "Some" with the block, or "Panic" when an unwrap()/expect() aborts.
Absent == [tag |-> "None", block |-> <<>>]

Aborted == [tag |-> "Panic", block |-> <<>>]

\* parse_from without the test of the Loop interface.
BlockParseFrom_NoLoopTest(path, objects) ==
    IF IF_BLOCK \notin DOMAIN objects THEN Absent
    ELSE IF BlockArmsPanic(objects[IF_BLOCK]) \/ PartitionArmsPanic(objects) THEN Aborted
    ELSE [tag |-> "Some", block |-> BlockParse(path, objects)]

\* parse_from that gives up on an object with a key or an interface that it
\* does not know, where the `_ =>` arms of the code only report it.
BlockParseFrom_Strict(path, objects) ==
    IF IF_LOOP \in DOMAIN objects THEN Absent
    ELSE IF IF_BLOCK \notin DOMAIN objects THEN Absent
    ELSE IF \E f \in DOMAIN objects :
               f \notin KnownInterfaces \/ ~(DOMAIN objects[f] \subseteq RecognizedKeys(f))
         THEN Absent
    ELSE IF BlockArmsPanic(objects[IF_BLOCK]) \/ PartitionArmsPanic(objects) THEN Aborted
    ELSE [tag |-> "Some", block |-> BlockParse(path, objects)]

BlockParseFrom(path, objects) ==
    IF IF_LOOP \in DOMAIN objects THEN Absent
    ELSE IF IF_BLOCK \notin DOMAIN objects THEN Absent
    ELSE IF BlockArmsPanic(objects[IF_BLOCK]) \/ PartitionArmsPanic(objects) THEN Aborted
    ELSE [tag |-> "Some", block |-> BlockParse(path, objects)]

\* Find returning the last match instead of the first.
RECURSIVE Find_Last(_, _)
Find_Last(within, path) ==
    IF within = <<>> THEN None
    ELSE IF within[Len(within)].crypto_backing_device = path THEN Some(within[Len(within)])
    ELSE Find_Last(SubSeq(within, 1, Len(within) - 1), path)

\* within.iter().find(|b| b.crypto_backing_device == path): the first match.
RECURSIVE Find(_, _)
Find(within, path) ==
    IF within = <<>> THEN None
    ELSE IF Head(within).crypto_backing_device = path THEN Some(Head(within))
    ELSE Find(Tail(within), path)

\* get_encrypted_block with the relation turned round: the block whose path
\* is self's crypto_backing_device.
RECURSIVE FindByPath(_, _)
FindByPath(within, path) ==
    IF within = <<>> THEN None
    ELSE IF Head(within).path = path THEN Some(Head(within))
    ELSE FindByPath(Tail(within), path)

get_encrypted_block_Reversed(self, within) ==
    IF IsSome(self.encrypted) THEN FindByPath(within, self.crypto_backing_device) ELSE None

\* Block::get_encrypted_block: Option<&Block>.
get_encrypted_block(self, within) ==
    IF IsSome(self.encrypted) THEN Find(within, self.path) ELSE None

(***************************************************************************)
(* lib.rs: DiskCache. The cache is the sequence of the map's entries,      *)
(* [path, objects], in the order the map iterates; paths are distinct.     *)
(***************************************************************************)
\* DiskCache::get_drives, consumed to its end: the Drives in iteration order.
RECURSIVE get_drives(_)
get_drives(c) ==
    IF c = <<>> THEN <<>>
    ELSE DriveParseFrom(Head(c).path, Head(c).objects) \o get_drives(Tail(c))

\* DiskCache::get_blocks, consumed to its end: [tag, items], with the blocks
\* yielded so far in `items`; tag "Panic" when a parse_from aborted there.
RECURSIVE BlocksFrom(_, _)
BlocksFrom(c, yielded) ==
    IF c = <<>> THEN [tag |-> "Ok", items |-> yielded]
    ELSE LET r == BlockParseFrom(Head(c).path, Head(c).objects)
         IN IF r.tag = "Panic" THEN [tag |-> "Panic", items |-> yielded]
            ELSE IF r.tag = "Some" THEN BlocksFrom(Tail(c), Append(yielded, r.block))
            ELSE BlocksFrom(Tail(c), yielded)

get_blocks(c) == BlocksFrom(c, <<>>)

\* DiskCache::get_object::<Block>: the first entry of that path that decodes;
\* entries of another path are not decoded.
RECURSIVE get_block(_, _)
get_block(c, path) ==
    IF c = <<>> THEN Absent
    ELSE IF Head(c).path = path /\ BlockParseFrom(path, Head(c).objects).tag # "None"
         THEN BlockParseFrom(path, Head(c).objects)
         ELSE get_block(Tail(c), path)

\* DiskCache::get_object::<Drive>: Option<Drive>.
RECURSIVE get_drive(_, _)
get_drive(c, path) ==
    IF c = <<>> THEN None
    ELSE IF Head(c).path = path /\ IsSome(DriveParseFrom(path, Head(c).objects))
         THEN DriveParseFrom(path, Head(c).objects)
         ELSE get_drive(Tail(c), path)

(***************************************************************************)
(* disks.rs                                                                *)
(***************************************************************************)
HasTable(b) == IsSome(b.table)

\* DriveBlocks without the test of block.table: every block of the drive
\* becomes the parent in its turn.
DriveBlocks_NoTableTest(drive, blocks) ==
    LET IsMine(b) == b.drive = drive.path
        IsChild(b) == ~HasTable(b)
        mine == SelectSeq(blocks, IsMine)
    IN [ parent |-> IF mine = <<>> THEN None ELSE Some(mine[Len(mine)]),
         partitions |-> SelectSeq(mine, IsChild) ]

\* DriveBlocks without the filter on block.drive: every block goes to every
\* drive.
DriveBlocks_NoDriveTest(drive, blocks) ==
    LET IsChild(b) == ~HasTable(b)
        tables == SelectSeq(blocks, HasTable)
    IN [ parent |-> IF tables = <<>> THEN None ELSE Some(tables[Len(tables)]),
         partitions |-> SelectSeq(blocks, IsChild) ]

\* The loop of disks.rs 33-39 for one drive: `parent` ends as the last
\* table-bearing block of the drive in iteration order, `partitions` holds
\* the others in iteration order.
DriveBlocks(drive, blocks) ==
    LET IsMine(b) == b.drive = drive.path
        IsChild(b) == ~HasTable(b)
        mine == SelectSeq(blocks, IsMine)
        tables == SelectSeq(mine, HasTable)
    IN [ parent |-> IF tables = <<>> THEN None ELSE Some(tables[Len(tables)]),
         partitions |-> SelectSeq(mine, IsChild) ]

\* sort_unstable_by_key(|p| p.partition.as_ref().unwrap().offset). A slice
\* of fewer than two elements is left as it is and the key is never taken;
\* otherwise the key is taken of every element, and unwrap() panics on a
\* block with no partition facet.
SortKeyPanics(partitions) ==
    /\ Len(partitions) >= 2
    /\ \E i \in 1..Len(partitions) : ~IsSome(partitions[i].partition)

\* SortedByOffset without the sort: the partitions stay in iteration order.
SortedByOffset_NoSort(partitions) == {partitions}

\* The order of elements with equal keys is not specified: every ascending
\* arrangement is an outcome.
SortedByOffset(partitions) ==
    IF Len(partitions) < 2 THEN {partitions}
    ELSE {p \in Perms(partitions) :
            \A i \in 1..(Len(p) - 1) :
                Unwrap(p[i].partition).offset <= Unwrap(p[i + 1].partition).offset}

DisksAborted == [tag |-> "Panic", devices |-> <<>>]

\* The loop over the drives (disks.rs 29-49): the set of its outcomes.
RECURSIVE Assemble(_, _, _)
Assemble(drives, blocks, devices) ==
    IF drives = <<>> THEN {[tag |-> "Ok", devices |-> devices]}
    ELSE LET drive == Head(drives)
             found == DriveBlocks(drive, blocks)
         IN IF ~IsSome(found.parent) THEN Assemble(Tail(drives), blocks, devices)
            ELSE IF SortKeyPanics(found.partitions) THEN {DisksAborted}
            ELSE UNION {Assemble(Tail(drives), blocks,
                                 Append(devices, [drive |-> drive,
                                                  parent |-> Unwrap(found.parent),
                                                  partitions |-> sorted])) :
                        sorted \in SortedByOffset(found.partitions)}

\* Disks::new_cache: the set of its outcomes, [tag, devices].
new_cache(c) ==
    IF get_blocks(c).tag = "Panic" THEN {DisksAborted}
    ELSE Assemble(get_drives(c), get_blocks(c).items, <<>>)

(***************************************************************************)
(* smart.rs                                                                *)
(***************************************************************************)
\* `x as u8` of an i32: the low eight bits.
I32AsU8(x) == x % U8Modulus

\* PrettyUnit::try_from(u8), as TryFromPrimitive derives it for #[repr(u8)].
PrettyUnitTryFrom(n) ==
    CASE n = 1 -> Some("Dimensionless")
      [] n = 2 -> Some("Milliseconds")
      [] n = 3 -> Some("Sectors")
      [] n = 4 -> Some("Millikelvin")
      [] OTHER -> None

\* From<RawSmartAttribute> for SmartAttribute
SmartAttributeFrom(raw) ==
    LET unit == PrettyUnitTryFrom(I32AsU8(raw.pretty_unit))
    IN [ id |-> raw.id,
         name |-> raw.name,
         flags |-> raw.flags,
         normalized |-> raw.value,
         worst |-> raw.worst,
         threshold |-> raw.threshold,
         pretty |-> IF IsSome(unit)
                    THEN Some([value |-> raw.pretty_value, unit |-> Unwrap(unit)])
                    ELSE None ]

\* SmartAttribute::assessment
assessment(self) ==
    IF self.normalized > 0 /\ self.threshold > 0 /\ self.normalized <= self.threshold
    THEN "Failing"
    ELSE IF self.worst > 0 /\ self.threshold > 0 /\ self.worst <= self.threshold
    THEN "FailedInPast"
    ELSE "Ok"

\* SmartStatus::from_str(..).unwrap_or(SmartStatus::Unknown)
SmartStatusParse(s) ==
    CASE s = "success" -> "Success"
      [] s = "aborted" -> "Aborted"
      [] s = "interrupted" -> "Interrupted"
      [] s = "fatal" -> "Fatal"
      [] s = "error_unknown" -> "UnknownError"
      [] s = "error_electrical" -> "ElectricalError"
      [] s = "error_servo" -> "ServoError"
      [] s = "error_read" -> "ReadError"
      [] s = "error_handling" -> "HandlingError"
      [] s = "inprogress" -> "InProgress"
      [] OTHER -> "Unknown"

(***************************************************************************)
(* Bounds and inputs                                                       *)
(***************************************************************************)
\* Block objects in a graph of the Disks view.
MaxBlocks == 3

\* Partition offsets are 0..MaxOffset.
MaxOffset == 1

RootPath == <<47>>

BlockPath(i) == <<47, 98, 48 + i>>

DrivePath(i) == <<47, 100, 48 + i>>

S_gpt == <<103, 112, 116>>

DriveIds == {1, 2}

Entry(path, objects) == [path |-> path, objects |-> objects]

NoInterfaces == [x \in {} |-> <<>>]

NoProperties == [x \in {} |-> <<>>]

DriveObject(i) == IF_DRIVE :> ("Id" :> VStr(DrivePath(i)))

\* A block of a drive: a child with or without a partition (at an offset),
\* or a table-bearing block, itself a partition or not (Disks::new never
\* reads the offset of a table-bearing block).
DiskBlockKinds ==
    [drive : DriveIds, table : {FALSE}, partition : {None} \cup {Some(o) : o \in 0..MaxOffset}]
    \cup [drive : DriveIds, table : {TRUE}, partition : {None, Some(0)}]

DiskBlockObject(kind) ==
    (IF_BLOCK :> ("Drive" :> VStr(DrivePath(kind.drive))))
    @@ (IF kind.table THEN IF_PARTITION_TABLE :> ("Type" :> VStr(S_gpt)) ELSE NoInterfaces)
    @@ (IF IsSome(kind.partition)
        THEN IF_PARTITION :> ("Offset" :> VU64(Unwrap(kind.partition)))
        ELSE NoInterfaces)

\* Two drives, or the second drive alone, before the blocks.
DiskDriveEntries ==
    { <<Entry(DrivePath(1), DriveObject(1)), Entry(DrivePath(2), DriveObject(2))>>,
      <<Entry(DrivePath(2), DriveObject(2))>> }

DisksGraph(drives, kinds) ==
    drives \o [i \in 1..Len(kinds) |-> Entry(BlockPath(i), DiskBlockObject(kinds[i]))]

\* A block that is an encrypted volume or not, and whose CryptoBackingDevice
\* is "/" (none) or the path of the first or second block.
CryptoBackingDevices == {RootPath, BlockPath(1), BlockPath(2)}

EncryptedBlockKinds == [encrypted : BOOLEAN, backing : CryptoBackingDevices]

S_luks == <<108, 117, 107, 115>>

EncryptedBlockObject(kind) ==
    (IF_BLOCK :> ("CryptoBackingDevice" :> VStr(kind.backing)))
    @@ (IF kind.encrypted
        THEN IF_ENCRYPTED :> ("HintEncryptionType" :> VStr(S_luks))
        ELSE NoInterfaces)

EncryptedGraph(kinds) ==
    [i \in 1..Len(kinds) |-> Entry(BlockPath(i), EncryptedBlockObject(kinds[i]))]

\* --- one object, decoded in every shape -------------------------------

\* Entries of a PartitionTable's Partitions list: 0..MaxListLen of them.
MaxListLen == 3

IF_DRIVE_ATA == "org.freedesktop.UDisks2.Drive.Ata"

AllInterfaces == KnownInterfaces \cup {IF_DRIVE_ATA}

S_id == <<105, 100>>

\* "/b10": before "/b2" in the order of strings.
BlockPath10 == <<47, 98, 49, 48>>

\* The bytes of "/d" with their terminating NUL, as the bus sends a path.
DevBytes == VArr(<<VU64(47), VU64(100), VU64(0)>>)

\* A byte that no UTF-8 text holds.
BadBytes == VArr(<<VU64(255)>>)

\* The properties an interface usually carries.
TypicalProps(interface) ==
    CASE interface = IF_BLOCK ->
            ("Drive" :> VStr(DrivePath(1))) @@ ("Id" :> VStr(S_id))
            @@ ("Size" :> VU64(8)) @@ ("Device" :> DevBytes)
      [] interface = IF_PARTITION_TABLE ->
            ("Type" :> VStr(S_gpt))
            @@ ("Partitions" :> VArr(<<VStr(BlockPath(2)), VStr(BlockPath(1))>>))
      [] interface = IF_PARTITION ->
            ("Table" :> VStr(BlockPath(1))) @@ ("Offset" :> VU64(1)) @@ ("Number" :> VU64(1))
      [] interface = IF_FILESYSTEM -> ("MountPoints" :> VArr(<<DevBytes>>))
      [] interface = IF_ENCRYPTED ->
            ("HintEncryptionType" :> VStr(S_luks)) @@ ("CleartextDevice" :> VStr(RootPath))
      [] interface = IF_SWAPSPACE -> ("Active" :> VU64(1))
      [] interface = IF_LOOP -> ("BackingFile" :> DevBytes)
      [] interface = IF_DRIVE ->
            ("Id" :> VStr(S_id)) @@ ("Size" :> VU64(8)) @@ ("Removable" :> VU64(1))
      [] OTHER -> ("SmartSupported" :> VU64(1))

TypicalObject(interfaces) == [f \in interfaces |-> TypicalProps(f)]

\* A plain block beside the object: absent, iterated after it or before it.
Sibling == Entry(BlockPath(2), IF_BLOCK :> ("Drive" :> VStr(DrivePath(2))))

WithSibling(entry) == {<<entry>>, <<entry, Sibling>>, <<Sibling, entry>>}

\* A property: missing (None) or one of the values (Some).
Optional(values) == {None} \cup {Some(v) : v \in values}

Property(key, o) == IF IsSome(o) THEN key :> Unwrap(o) ELSE NoProperties

\* A path, the empty string, and values that are no strings.
StringShapes == {VStr(DrivePath(1)), VStr(EmptyString), VU64(1), VArr(<<>>)}

\* A path's bytes, no bytes, bytes that are no text, and values that are no
\* sequences.
ByteArrayShapes == {DevBytes, VArr(<<>>), BadBytes, VStr(DrivePath(1)), VOther}

\* One fstab entry: [[("fstab", [dir, <bytes>, passno, 2])]].
FstabConfiguration ==
    VArr(<<VArr(<<VArr(<<VStr(K_fstab),
                         VArr(<<VStr(K_dir), VArr(<<VArr(<<DevBytes>>)>>),
                                VStr(K_passno), VU64(2)>>)>>)>>)>>)

ConfigurationShapes == {FstabConfiguration, VArr(<<>>), VStr(K_fstab), VU64(1)}

ListItems ==
    {VStr(BlockPath(1)), VStr(BlockPath10), VStr(BlockPath(2)), VStr(EmptyString), VU64(1)}

LookupPaths == {BlockPath(1), BlockPath(2)}

(***************************************************************************)
(* Operations: each is a call on the current cache; `out` is the last call *)
(* and its result.                                                         *)
(***************************************************************************)
NoCall == [op |-> "none"]

GetDrives ==
    /\ out' = [op |-> "get_drives", res |-> get_drives(cache)]
    /\ UNCHANGED cache

GetBlocks ==
    /\ out' = [op |-> "get_blocks", res |-> get_blocks(cache)]
    /\ UNCHANGED cache

GetDrive ==
    /\ \E path \in LookupPaths :
          out' = [op |-> "get_drive", path |-> path, res |-> get_drive(cache, path)]
    /\ UNCHANGED cache

GetBlock ==
    /\ \E path \in LookupPaths :
          out' = [op |-> "get_block", path |-> path, res |-> get_block(cache, path)]
    /\ UNCHANGED cache

DisksNew ==
    /\ \E r \in new_cache(cache) : out' = [op |-> "Disks::new", res |-> r]
    /\ UNCHANGED cache

\* E.get_encrypted_block(within), E one of the blocks the caller collected
\* from get_blocks and `within` a slice of them. The call reads the blocks
\* only: made after another get_encrypted_block it reaches nothing that it
\* does not reach here, and it is taken once per snapshot.
GetEncryptedBlock ==
    /\ out.op # "get_encrypted_block"
    /\ get_blocks(cache).tag = "Ok"
    /\ LET blocks == get_blocks(cache).items
       IN \E i \in 1..Len(blocks), a \in 1..(Len(blocks) + 1) : \E b \in (a - 1)..Len(blocks) :
             out' = [op |-> "get_encrypted_block",
                     self |-> blocks[i],
                     within |-> SubSeq(blocks, a, b),
                     res |-> get_encrypted_block(blocks[i], SubSeq(blocks, a, b))]
    /\ UNCHANGED cache

InitDisks ==
    /\ \E n \in 0..MaxBlocks : \E drives \in DiskDriveEntries, kinds \in [1..n -> DiskBlockKinds] :
          cache = DisksGraph(drives, kinds)
    /\ out = NoCall

NextDisks == GetDrives \/ GetBlocks \/ DisksNew

SpecDisks == InitDisks /\ [][NextDisks]_vars

InitEncrypted ==
    /\ \E n \in 0..MaxBlocks : \E kinds \in [1..n -> EncryptedBlockKinds] :
          cache = EncryptedGraph(kinds)
    /\ out = NoCall

NextEncrypted == GetBlocks \/ GetEncryptedBlock

SpecEncrypted == InitEncrypted /\ [][NextEncrypted]_vars

\* An object with any set of interfaces, each with its usual properties.
InitInterfaces ==
    \E interfaces \in SUBSET AllInterfaces :
        cache \in WithSibling(Entry(BlockPath(1), TypicalObject(interfaces)))

\* A block whose Drive, CryptoBackingDevice, Device, PreferredDevice and
\* Configuration are missing, well formed or malformed; and a partition
\* whose Table is.
InitBlockProperties ==
    \/ \E drive \in Optional(StringShapes), backing \in Optional(StringShapes),
          device \in Optional(ByteArrayShapes), preferred \in Optional({DevBytes, VOther}),
          configuration \in Optional(ConfigurationShapes) :
            cache = <<Entry(BlockPath(1),
                            IF_BLOCK :> (Property("Drive", drive)
                                         @@ Property("CryptoBackingDevice", backing)
                                         @@ Property("Device", device)
                                         @@ Property("PreferredDevice", preferred)
                                         @@ Property("Configuration", configuration)))>>
    \/ \E table \in Optional(StringShapes), block \in BOOLEAN :
            cache = <<Entry(BlockPath(1),
                            (IF block THEN IF_BLOCK :> NoProperties ELSE NoInterfaces)
                            @@ (IF_PARTITION :> (Property("Table", table)
                                                 @@ ("Offset" :> VU64(1)))))>>

\* A partition table whose Partitions is a list of 0..MaxListLen items, or
\* no list.
InitPartitionLists ==
    \E type \in Optional({VStr(S_gpt)}) :
        \/ \E n \in 0..MaxListLen : \E items \in [1..n -> ListItems] :
              cache = <<Entry(BlockPath(1),
                              (IF_BLOCK :> NoProperties)
                              @@ (IF_PARTITION_TABLE :>
                                    (Property("Type", type) @@ ("Partitions" :> VArr(items)))))>>
        \/ \E partitions \in Optional({VStr(BlockPath(1)), VU64(1)}) :
              cache = <<Entry(BlockPath(1),
                              (IF_BLOCK :> NoProperties)
                              @@ (IF_PARTITION_TABLE :>
                                    (Property("Type", type)
                                     @@ Property("Partitions", partitions))))>>

\* What a Swapspace interface carries as Active: a boolean as the bus sends
\* it (0, 1), another integer, and values that are no integers.
ActiveShapes == {VU64(0), VU64(1), VU64(2), VStr(S_id), VOther}

\* A block with or without the Swapspace interface, whose Active is missing
\* or of any shape.
InitSwapspace ==
    \E swap \in BOOLEAN, active \in Optional(ActiveShapes) :
        cache \in WithSibling(Entry(BlockPath(1),
                                    (IF_BLOCK :> NoProperties)
                                    @@ (IF swap THEN IF_SWAPSPACE :> Property("Active", active)
                                        ELSE NoInterfaces)))

\* A block whose Drive is missing, well formed or malformed, alone or beside
\* a plain block.
InitBesideSibling ==
    \E drive \in Optional(StringShapes) :
        cache \in WithSibling(Entry(BlockPath(1), IF_BLOCK :> Property("Drive", drive)))

\* What the bus answers to GetManagedObjects: a block that is a loop device,
\* a partition, a drive, any of them or none, alone or beside a plain block.
ManagedObjects ==
    UNION {WithSibling(Entry(BlockPath(1), TypicalObject({IF_BLOCK} \cup interfaces))) :
           interfaces \in SUBSET {IF_LOOP, IF_PARTITION, IF_DRIVE}}

\* The paths of the objects of a graph.
Paths(c) == {c[i].path : i \in 1..Len(c)}

\* update() that keeps the cached objects that the answer of the bus does
\* not name.
Update_KeepsMissing ==
    \/ \E objects \in ManagedObjects :
          LET Missing(entry) == entry.path \notin Paths(objects)
          IN /\ cache' = objects \o SelectSeq(cache, Missing)
             /\ out' = [op |-> "update", res |-> "Ok", objects |-> objects]
    \/ /\ out' = [op |-> "update", res |-> "Err"]
       /\ UNCHANGED cache

\* update(): the cache becomes the answer of the bus (`objects`); when the
\* call fails `?` returns before the assignment and the cache is left as it
\* was.
Update ==
    \/ \E objects \in ManagedObjects :
          /\ cache' = objects
          /\ out' = [op |-> "update", res |-> "Ok", objects |-> objects]
    \/ /\ out' = [op |-> "update", res |-> "Err"]
       /\ UNCHANGED cache

InitParse ==
    /\ \/ InitInterfaces \/ InitBlockProperties \/ InitPartitionLists
       \/ InitSwapspace \/ InitBesideSibling
    /\ out = NoCall

NextParse == GetDrives \/ GetBlocks \/ GetDrive \/ GetBlock \/ Update

SpecParse == InitParse /\ [][NextParse]_vars

\* --- construction, refreshes and reads of one instance ------------------

\* An instance exists: new() has returned Ok. Before the first call, and
\* after a new() that returned Err, the caller holds no instance and only
\* new() can be called.
Live == out.op # "none" /\ out # [op |-> "new", res |-> "Err"]

\* new() that returns the instance although its refresh failed.
New_KeepsInstance ==
    /\ ~Live
    /\ \/ \E objects \in ManagedObjects :
             /\ cache' = objects
             /\ out' = [op |-> "new", res |-> "Ok", objects |-> objects]
       \/ /\ cache' = <<>>
          /\ out' = [op |-> "new", res |-> "Ok", objects |-> <<>>]

\* UDisks2::new and AsyncUDisks2::new: the instance is built with the
\* default (empty) cache and refreshed; `?` returns the error of the
\* connection or of the refresh and drops the instance, otherwise the
\* instance is returned with the answer of the bus as its cache.
New ==
    /\ ~Live
    /\ \/ \E objects \in ManagedObjects :
             /\ cache' = objects
             /\ out' = [op |-> "new", res |-> "Ok", objects |-> objects]
       \/ /\ cache' = <<>>
          /\ out' = [op |-> "new", res |-> "Err"]

InitLifecycle ==
    /\ cache = <<>>
    /\ out = NoCall

NextLifecycle ==
    \/ New
    \/ Live /\ GetDrives
    \/ Live /\ GetBlocks
    \/ Live /\ GetDrive
    \/ Live /\ GetBlock
    \/ Live /\ Update

SpecLifecycle == InitLifecycle /\ [][NextLifecycle]_vars

\* --- a raw S.M.A.R.T. attribute, as SmartGetAttributes answers it ------

\* Values of value, worst and threshold: unknown (-1), zero, and positive
\* ones on both sides of each other.
SmartValues == {-1, 0, 5, 10, 20, 50}

\* Unit tags: the four units, their neighbours, negative tags and tags
\* that do not fit eight bits.
PrettyUnitTags == {-255, -1, 0, 1, 2, 3, 4, 5, 255, 256, 257, 260}

S_name == <<116, 101, 109, 112>>

RawSmartAttributes ==
    [ id : {194}, name : {S_name}, flags : {0, 3},
      value : SmartValues, worst : SmartValues, threshold : SmartValues,
      pretty_value : {-1, 30000}, pretty_unit : PrettyUnitTags,
      expansion : {NoProperties} ]

\* attrs.into_iter().map(Into::into): one raw attribute becomes a
\* SmartAttribute.
IntoSmartAttribute ==
    /\ out' = [op |-> "into", arg |-> out.arg, res |-> SmartAttributeFrom(out.arg)]
    /\ UNCHANGED cache

\* assessment() of the SmartAttribute made of the raw attribute.
Assessment ==
    /\ out' = [op |-> "assessment", arg |-> out.arg,
               self |-> SmartAttributeFrom(out.arg),
               res |-> assessment(SmartAttributeFrom(out.arg))]
    /\ UNCHANGED cache

\* `out.arg` is the raw attribute at hand.
InitSmartAttribute ==
    /\ cache = <<>>
    /\ \E raw \in RawSmartAttributes : out = [op |-> "raw", arg |-> raw]

NextSmartAttribute == IntoSmartAttribute \/ Assessment

SpecSmartAttribute == InitSmartAttribute /\ [][NextSmartAttribute]_vars

\* --- smart_attributes, one bus round trip at a time ---------------------

SUPPORTED == "SmartSupported"

\* smart::ENABLED (the bare name is a reserved word of the language)
SMART_ENABLED == "SmartEnabled"

UPDATED == "SmartUpdated"

GET_ATTRS == "SmartGetAttributes"

FAILING == "SmartFailing"

TIME_POWER_ON == "SmartPowerOnSeconds"

TEMPERATURE == "SmartTemperature"

FAILING_ATTRS_COUNT == "SmartNumAttributesFailing"

PAST_FAILING_ATTRS_COUNT == "SmartNumAttributesFailedInThePast"

BAD_SECTORS == "SmartNumBadSectors"

STATUS == "SmartSelftestStatus"

NO_WAKEUP == "nowakeup"

\* The properties read after SmartGetAttributes, in the order of the fields
\* of the SmartData literal.
DataMembers ==
    <<FAILING, TIME_POWER_ON, TEMPERATURE, FAILING_ATTRS_COUNT, PAST_FAILING_ATTRS_COUNT,
      BAD_SECTORS, STATUS>>

\* Timestamps of the last update are 0..MaxUpdated.
MaxUpdated == 2

\* SmartGetAttributes answers 0..MaxAttrs attributes.
MaxAttrs == 1

\* An answer of the bus: a dbus::Error, or a value.
BusErr == [tag |-> "Err"]

BusOk(v) == [tag |-> "Ok", value |-> v]

\* A request that the bus has not answered yet.
BusPending == [tag |-> "Pending"]

\* No fetch has failed.
NoMember == ""

RawSamples ==
    {raw \in RawSmartAttributes :
        /\ raw.flags = 3 /\ raw.pretty_value = 30000 /\ raw.pretty_unit \in {4, 260}
        /\ raw.value = 20 /\ raw.worst = 5 /\ raw.threshold = 10}

AttrLists == UNION {[1..n -> RawSamples] : n \in 0..MaxAttrs}

\* What the bus may answer to the Get of each member of DataMembers.
DataAnswers(member) ==
    {BusErr} \cup
    (CASE member = FAILING -> {BusOk(FALSE), BusOk(TRUE)}
       [] member = STATUS -> {BusOk("success"), BusOk("bogus")}
       [] member = TEMPERATURE -> {BusOk(300)}
       [] OTHER -> {BusOk(-1)})

\* One entry of out.sent: a property Get or a method call, with the options
\* it carried and the answer of the bus.
Sent(member, options, answer) == [member |-> member, options |-> options, answer |-> answer]

SmartErr == Some(BusErr)

SmartOk(value) == Some([tag |-> "Ok", value |-> value])

\* KeyVariant::new(), and NO_WAKEUP = true unless allow_wakeup.
SmartOptions(allow_wakeup) ==
    IF ~allow_wakeup THEN NO_WAKEUP :> TRUE ELSE NoProperties

\* Where smart_attributes stands: not called, before one of its round
\* trips, or returned.
SmartPc == IF out = NoCall THEN "none" ELSE out.pc

\* let proxy = self.proxy(drive): nothing is sent yet.
SmartAttributesCall ==
    /\ SmartPc \in {"none", "done"}
    /\ \E mode \in {"blocking", "nonblock"}, allow_wakeup \in BOOLEAN :
          out' = [op |-> "smart_attributes", mode |-> mode, allow_wakeup |-> allow_wakeup,
                  pc |-> "supported", sent |-> <<>>, updated |-> 0, attrs |-> <<>>,
                  failed |-> NoMember, res |-> None]
    /\ UNCHANGED cache

\* proxy.get::<bool>(DEST, SUPPORTED)? continuing whatever the answer is.
SmartGetSupported_Continues ==
    /\ SmartPc = "supported"
    /\ \E answer \in {BusErr, BusOk(FALSE), BusOk(TRUE)} :
          out' = [out EXCEPT !.sent = Append(@, Sent(SUPPORTED, NoProperties, answer)),
                             !.pc = IF answer = BusErr THEN "done" ELSE "enabled",
                             !.failed = IF answer = BusErr THEN SUPPORTED ELSE @,
                             !.res = IF answer = BusErr THEN SmartErr ELSE None]
    /\ UNCHANGED cache

\* if !proxy.get::<bool>(DEST, SUPPORTED)? { return Ok(NotSupported) }
SmartGetSupported ==
    /\ SmartPc = "supported"
    /\ \E answer \in {BusErr, BusOk(FALSE), BusOk(TRUE)} :
          out' = [out EXCEPT !.sent = Append(@, Sent(SUPPORTED, NoProperties, answer)),
                             !.pc = IF answer = BusOk(TRUE) THEN "enabled" ELSE "done",
                             !.failed = IF answer = BusErr THEN SUPPORTED ELSE @,
                             !.res = IF answer = BusErr THEN SmartErr
                                     ELSE IF answer = BusOk(FALSE)
                                     THEN SmartOk([kind |-> "NotSupported"])
                                     ELSE None]
    /\ UNCHANGED cache

\* proxy.get::<bool>(DEST, ENABLED)? continuing whatever the answer is.
SmartGetEnabled_Continues ==
    /\ SmartPc = "enabled"
    /\ \E answer \in {BusErr, BusOk(FALSE), BusOk(TRUE)} :
          out' = [out EXCEPT !.sent = Append(@, Sent(SMART_ENABLED, NoProperties, answer)),
                             !.pc = IF answer = BusErr THEN "done" ELSE "updated",
                             !.failed = IF answer = BusErr THEN SMART_ENABLED ELSE @,
                             !.res = IF answer = BusErr THEN SmartErr ELSE None]
    /\ UNCHANGED cache

\* if !proxy.get::<bool>(DEST, ENABLED)? { return Ok(NotEnabled) }
SmartGetEnabled ==
    /\ SmartPc = "enabled"
    /\ \E answer \in {BusErr, BusOk(FALSE), BusOk(TRUE)} :
          out' = [out EXCEPT !.sent = Append(@, Sent(SMART_ENABLED, NoProperties, answer)),
                             !.pc = IF answer = BusOk(TRUE) THEN "updated" ELSE "done",
                             !.failed = IF answer = BusErr THEN SMART_ENABLED ELSE @,
                             !.res = IF answer = BusErr THEN SmartErr
                                     ELSE IF answer = BusOk(FALSE)
                                     THEN SmartOk([kind |-> "NotEnabled"])
                                     ELSE None]
    /\ UNCHANGED cache

\* let updated = proxy.get(DEST, UPDATED)? with no test of the timestamp.
SmartGetUpdated_NoTest ==
    /\ SmartPc = "updated"
    /\ \E answer \in {BusErr} \cup {BusOk(t) : t \in 0..MaxUpdated} :
          out' = [out EXCEPT !.sent = Append(@, Sent(UPDATED, NoProperties, answer)),
                             !.pc = IF answer = BusErr THEN "done" ELSE "get_attrs",
                             !.updated = IF answer = BusErr THEN 0 ELSE answer.value,
                             !.failed = IF answer = BusErr THEN UPDATED ELSE @,
                             !.res = IF answer = BusErr THEN SmartErr ELSE None]
    /\ UNCHANGED cache

\* let updated: u64 = proxy.get(DEST, UPDATED)?;
\* if updated == 0 { return Ok(NotUpdated) }
SmartGetUpdated ==
    /\ SmartPc = "updated"
    /\ \E answer \in {BusErr} \cup {BusOk(t) : t \in 0..MaxUpdated} :
          out' = [out EXCEPT !.sent = Append(@, Sent(UPDATED, NoProperties, answer)),
                             !.pc = IF answer # BusErr /\ answer.value # 0
                                    THEN "get_attrs" ELSE "done",
                             !.updated = IF answer = BusErr THEN 0 ELSE answer.value,
                             !.failed = IF answer = BusErr THEN UPDATED ELSE @,
                             !.res = IF answer = BusErr THEN SmartErr
                                     ELSE IF answer.value = 0
                                     THEN SmartOk([kind |-> "NotUpdated"])
                                     ELSE None]
    /\ UNCHANGED cache

\* proxy.method_call(DEST, GET_ATTRS, (options,))?
SmartGetAttributes ==
    /\ SmartPc = "get_attrs"
    /\ \E answer \in {BusErr} \cup {BusOk(attrs) : attrs \in AttrLists} :
          out' = [out EXCEPT !.sent = Append(@, Sent(GET_ATTRS, SmartOptions(out.allow_wakeup),
                                                     answer)),
                             !.pc = IF answer = BusErr THEN "done" ELSE "data",
                             !.attrs = IF answer = BusErr THEN <<>> ELSE answer.value,
                             !.failed = IF answer = BusErr THEN GET_ATTRS ELSE @,
                             !.res = IF answer = BusErr THEN SmartErr ELSE None]
    /\ UNCHANGED cache

\* The position of the first dbus::Error among the answers, 0 when none.
FirstErr(answers) ==
    IF \E i \in 1..Len(answers) : answers[i] = BusErr
    THEN CHOOSE i \in 1..Len(answers) :
            answers[i] = BusErr /\ \A j \in 1..(i - 1) : answers[j] # BusErr
    ELSE 0

\* SmartData { updated, failing, .., status, attributes }
SmartDataOf(updated, attrs, answers) ==
    [ attributes |-> [i \in 1..Len(attrs) |-> SmartAttributeFrom(attrs[i])],
      updated |-> updated,
      failing |-> answers[1].value,
      time_powered_on |-> answers[2].value,
      temperature |-> answers[3].value,
      failing_attrs_count |-> answers[4].value,
      past_failing_attrs_count |-> answers[5].value,
      bad_sectors |-> answers[6].value,
      status |-> SmartStatusParse(answers[7].value) ]

\* The seven property reads of the SmartData literal in the blocking
\* client: one after the other, `?` returning at the first error.
SmartGetData ==
    /\ SmartPc = "data"
    /\ out.mode = "blocking"
    /\ \E a1 \in DataAnswers(FAILING), a2 \in DataAnswers(TIME_POWER_ON),
          a3 \in DataAnswers(TEMPERATURE), a4 \in DataAnswers(FAILING_ATTRS_COUNT),
          a5 \in DataAnswers(PAST_FAILING_ATTRS_COUNT), a6 \in DataAnswers(BAD_SECTORS),
          a7 \in DataAnswers(STATUS) :
          LET answers == <<a1, a2, a3, a4, a5, a6, a7>>
              k == FirstErr(answers)
              asked == IF k # 0 THEN k ELSE Len(DataMembers)
          IN out' = [out EXCEPT
                        !.sent = @ \o [i \in 1..asked |->
                                          Sent(DataMembers[i], NoProperties, answers[i])],
                        !.pc = "done",
                        !.failed = IF k # 0 THEN DataMembers[k] ELSE @,
                        !.res = IF k # 0 THEN SmartErr
                                ELSE SmartOk([kind |-> "Enabled",
                                              data |-> SmartDataOf(out.updated, out.attrs,
                                                                   answers)])]
    /\ UNCHANGED cache

\* join!(proxy.get(..), ..) in the async client: the seven futures are made,
\* each with its request, before any of them is awaited.
SmartJoinStart ==
    /\ SmartPc = "data"
    /\ out.mode = "nonblock"
    /\ out' = [out EXCEPT
                  !.sent = @ \o [i \in 1..Len(DataMembers) |->
                                    Sent(DataMembers[i], NoProperties, BusPending)],
                  !.pc = "join"]
    /\ UNCHANGED cache

\* The answers of the seven requests of join!, in the order of its arguments.
JoinAnswers(sent) ==
    [i \in 1..Len(DataMembers) |-> sent[Len(sent) - Len(DataMembers) + i].answer]

\* The value a field of SmartData would default to.
DataDefault(member) ==
    CASE member = FAILING -> BusOk(FALSE)
      [] member = STATUS -> BusOk("")
      [] OTHER -> BusOk(0)

\* The last dbus::Error among the answers, 0 when none.
LastErr(answers) ==
    IF \E i \in 1..Len(answers) : answers[i] = BusErr
    THEN CHOOSE i \in 1..Len(answers) :
            answers[i] = BusErr /\ \A j \in (i + 1)..Len(answers) : answers[j] # BusErr
    ELSE 0

\* The reply of join! that builds the record whatever the answers are, with
\* the default of a field whose fetch failed.
SmartJoinReply_DefaultsOnError ==
    /\ SmartPc = "join"
    /\ \E i \in 1..Len(DataMembers) :
          /\ JoinAnswers(out.sent)[i] = BusPending
          /\ \E answer \in DataAnswers(DataMembers[i]) :
                LET at == Len(out.sent) - Len(DataMembers) + i
                    sent == [out.sent EXCEPT ![at].answer = answer]
                    answers == JoinAnswers(sent)
                    filled == [j \in 1..Len(DataMembers) |->
                                  IF answers[j] = BusErr THEN DataDefault(DataMembers[j])
                                  ELSE answers[j]]
                IN out' = IF \E j \in 1..Len(DataMembers) : answers[j] = BusPending
                          THEN [out EXCEPT !.sent = sent]
                          ELSE [out EXCEPT
                                   !.sent = sent,
                                   !.pc = "done",
                                   !.res = SmartOk([kind |-> "Enabled",
                                                    data |-> SmartDataOf(out.updated, out.attrs,
                                                                         filled)])]
    /\ UNCHANGED cache

\* The reply of join! that returns the last error in the order of the
\* fields.
SmartJoinReply_LastError ==
    /\ SmartPc = "join"
    /\ \E i \in 1..Len(DataMembers) :
          /\ JoinAnswers(out.sent)[i] = BusPending
          /\ \E answer \in DataAnswers(DataMembers[i]) :
                LET at == Len(out.sent) - Len(DataMembers) + i
                    sent == [out.sent EXCEPT ![at].answer = answer]
                    answers == JoinAnswers(sent)
                    k == LastErr(answers)
                IN out' = IF \E j \in 1..Len(DataMembers) : answers[j] = BusPending
                          THEN [out EXCEPT !.sent = sent]
                          ELSE [out EXCEPT
                                   !.sent = sent,
                                   !.pc = "done",
                                   !.failed = IF k # 0 THEN DataMembers[k] ELSE @,
                                   !.res = IF k # 0 THEN SmartErr
                                           ELSE SmartOk([kind |-> "Enabled",
                                                         data |-> SmartDataOf(out.updated,
                                                                              out.attrs,
                                                                              answers)])]
    /\ UNCHANGED cache

\* One of the pending requests of join! is answered, in any order. While
\* another is pending join! stays pending; on the last answer it yields the
\* seven results and the SmartData literal takes them with `?` in the order
\* of its fields: the first error is returned, otherwise Enabled(data).
SmartJoinReply ==
    /\ SmartPc = "join"
    /\ \E i \in 1..Len(DataMembers) :
          /\ JoinAnswers(out.sent)[i] = BusPending
          /\ \E answer \in DataAnswers(DataMembers[i]) :
                LET at == Len(out.sent) - Len(DataMembers) + i
                    sent == [out.sent EXCEPT ![at].answer = answer]
                    answers == JoinAnswers(sent)
                    k == FirstErr(answers)
                IN out' = IF \E j \in 1..Len(DataMembers) : answers[j] = BusPending
                          THEN [out EXCEPT !.sent = sent]
                          ELSE [out EXCEPT
                                   !.sent = sent,
                                   !.pc = "done",
                                   !.failed = IF k # 0 THEN DataMembers[k] ELSE @,
                                   !.res = IF k # 0 THEN SmartErr
                                           ELSE SmartOk([kind |-> "Enabled",
                                                         data |-> SmartDataOf(out.updated,
                                                                              out.attrs,
                                                                              answers)])]
    /\ UNCHANGED cache

InitSmart ==
    /\ cache = <<>>
    /\ out = NoCall

NextSmart ==
    \/ SmartAttributesCall
    \/ SmartGetSupported
    \/ SmartGetEnabled
    \/ SmartGetUpdated
    \/ SmartGetAttributes
    \/ SmartGetData
    \/ SmartJoinStart
    \/ SmartJoinReply

SpecSmart == InitSmart /\ [][NextSmart]_vars

\* --- the extractors of utils.rs, on one value ---------------------------

\* Byte arrays hold 0..MaxBytes bytes.
MaxBytes == 3

\* NUL, "/", "d", the two bytes of U+00E9 (valid together, in that order),
\* and a byte that no UTF-8 text holds.
ByteAlphabet == {0, 47, 100, 195, 169, 255}

\* "/dev" with its terminating NUL.
DevNul == <<47, 100, 101, 118, 0>>

ByteLists == UNION {[1..n -> ByteAlphabet] : n \in 0..MaxBytes} \cup {DevNul}

ByteArrayValue(bytes) == VArr([i \in 1..Len(bytes) |-> VU64(bytes[i])])

StringLists == UNION {[1..n -> ListItems] : n \in 0..MaxListLen}

\* The values a property may hold: byte arrays, lists of strings and of
\* other things, and values that are no sequence.
ExtractorArgs ==
    {ByteArrayValue(bytes) : bytes \in ByteLists}
    \cup {VArr(items) : items \in StringLists}
    \cup {VStr(BlockPath(1)), VStr(EmptyString), VU64(1), VOther}

GetByteArray ==
    /\ out' = [op |-> "get_byte_array", arg |-> out.arg, res |-> get_byte_array(out.arg)]
    /\ UNCHANGED cache

GetStringArray ==
    /\ out' = [op |-> "get_string_array", arg |-> out.arg, res |-> get_string_array(out.arg)]
    /\ UNCHANGED cache

\* `out.arg` is the value at hand.
InitExtract ==
    /\ cache = <<>>
    /\ \E arg \in ExtractorArgs : out = [op |-> "arg", arg |-> arg]

NextExtract == GetByteArray \/ GetStringArray

SpecExtract == InitExtract /\ [][NextExtract]_vars

\* --- mount, unmount, eject ----------------------------------------------

AUTH_NO_USER_INTERACTION == "auth.no_user_interaction"

\* Block::has_fs(): whether the block has the filesystem facet. The caller's
\* block carries the answer in `has_fs`.
has_fs(block) == block.has_fs

\* MountError::NoFS, MountError::DBUS(e), and the dbus::Error of eject.
ErrNoFS == [tag |-> "Err", kind |-> "NoFS"]

ErrDBUS == [tag |-> "Err", kind |-> "DBUS"]

ErrDbusError == [tag |-> "Err", kind |-> "dbus::Error"]

\* KeyVariant::new(), and the key inserted `if !interactive`.
InteractionOptions(interactive) ==
    IF ~interactive THEN AUTH_NO_USER_INTERACTION :> FALSE ELSE NoProperties

\* An Option<&str> argument inserted under `key` when it is Some.
OptionalOption(key, o) == IF IsSome(o) THEN key :> Unwrap(o) ELSE NoProperties

\* One proxy.method_call: the object, the interface, the method, the
\* options and the answer of the bus.
MethodCall(path, interface, method, options, answer) ==
    [path |-> path, interface |-> interface, method |-> method, options |-> options,
     answer |-> answer]

\* mount with the method call made before has_fs() is looked at.
mount_CallsFirst(block, interactive, fstype, mount_options, answer) ==
    LET options == InteractionOptions(interactive)
                   @@ OptionalOption("fstype", fstype)
                   @@ OptionalOption("options", mount_options)
    IN [ proxy |-> Some(block.path),
         sent |-> <<MethodCall(block.path, IF_FILESYSTEM, "Mount", options, answer)>>,
         res |-> IF ~has_fs(block) THEN ErrNoFS
                 ELSE IF answer = BusErr THEN ErrDBUS
                 ELSE [tag |-> "Ok", value |-> answer.value] ]

\* UDisks2::mount; `answer` is what the bus answers if it is asked.
mount(block, interactive, fstype, mount_options, answer) ==
    IF ~has_fs(block)
    THEN [proxy |-> None, sent |-> <<>>, res |-> ErrNoFS]
    ELSE LET options == InteractionOptions(interactive)
                        @@ OptionalOption("fstype", fstype)
                        @@ OptionalOption("options", mount_options)
         IN [ proxy |-> Some(block.path),
              sent |-> <<MethodCall(block.path, IF_FILESYSTEM, "Mount", options, answer)>>,
              res |-> IF answer = BusErr THEN ErrDBUS
                      ELSE [tag |-> "Ok", value |-> answer.value] ]

\* UDisks2::unmount
unmount(block, interactive, force, answer) ==
    IF ~has_fs(block)
    THEN [proxy |-> None, sent |-> <<>>, res |-> ErrNoFS]
    ELSE LET options == InteractionOptions(interactive) @@ ("force" :> force)
         IN [ proxy |-> Some(block.path),
              sent |-> <<MethodCall(block.path, IF_FILESYSTEM, "Unmount", options, answer)>>,
              res |-> IF answer = BusErr THEN ErrDBUS ELSE [tag |-> "Ok"] ]

\* UDisks2::eject
eject(drive, interactive, answer) ==
    [ proxy |-> Some(drive.path),
      sent |-> <<MethodCall(drive.path, IF_DRIVE, "Eject", InteractionOptions(interactive),
                            answer)>>,
      res |-> IF answer = BusErr THEN ErrDbusError ELSE [tag |-> "Ok"] ]

S_ext4 == <<101, 120, 116, 52>>

S_ro == <<114, 111>>

\* "/m", where the bus says it mounted the file system.
S_mounted == <<47, 109>>

\* The blocks a caller holds: those of get_blocks, each with what has_fs()
\* answers for it.
CallerBlocks ==
    IF get_blocks(cache).tag = "Ok"
    THEN {[has_fs |-> fs] @@ b : fs \in BOOLEAN, b \in Range(get_blocks(cache).items)}
    ELSE {}

Mount ==
    /\ \E block \in CallerBlocks, interactive \in BOOLEAN, fstype \in Optional({S_ext4}),
          mount_options \in Optional({S_ro}), answer \in {BusErr, BusOk(S_mounted)} :
          LET r == mount(block, interactive, fstype, mount_options, answer)
          IN out' = [op |-> "mount", block |-> block, interactive |-> interactive,
                     proxy |-> r.proxy, sent |-> r.sent, res |-> r.res]
    /\ UNCHANGED cache

Unmount ==
    /\ \E block \in CallerBlocks, interactive \in BOOLEAN, force \in BOOLEAN,
          answer \in {BusErr, BusOk(<<>>)} :
          LET r == unmount(block, interactive, force, answer)
          IN out' = [op |-> "unmount", block |-> block, interactive |-> interactive,
                     proxy |-> r.proxy, sent |-> r.sent, res |-> r.res]
    /\ UNCHANGED cache

Eject ==
    /\ \E drive \in Range(get_drives(cache)), interactive \in BOOLEAN,
          answer \in {BusErr, BusOk(<<>>)} :
          LET r == eject(drive, interactive, answer)
          IN out' = [op |-> "eject", drive |-> drive, interactive |-> interactive,
                     proxy |-> r.proxy, sent |-> r.sent, res |-> r.res]
    /\ UNCHANGED cache

InitActions ==
    /\ cache \in ManagedObjects
    /\ out = NoCall

NextActions == Mount \/ Unmount \/ Eject

SpecActions == InitActions /\ [][NextActions]_vars

(***************************************************************************)
(* Properties of the Disks view (SpecDisks)                                *)
(***************************************************************************)
DisksDone == out.op = "Disks::new" /\ out.res.tag = "Ok"

Devices == out.res.devices

CachedBlocks == get_blocks(cache).items

CachedDrives == get_drives(cache)

OffsetOf(b) == Unwrap(b.partition).offset

\* The drive has a table-bearing block among the decoded blocks.
HasParentBlock(drive) ==
    \E i \in 1..Len(CachedBlocks) :
        CachedBlocks[i].drive = drive.path /\ HasTable(CachedBlocks[i])

\* The drive has a block with neither a table facet nor a partition facet.
HasFacetlessBlock(drive) ==
    \E i \in 1..Len(CachedBlocks) :
        /\ CachedBlocks[i].drive = drive.path
        /\ ~HasTable(CachedBlocks[i])
        /\ ~IsSome(CachedBlocks[i].partition)

HasDevice(drive) ==
    \E d \in 1..Len(Devices) : Devices[d].drive = drive

\* C2: in every DiskDevice that Disks::new produces, the partitions are in
\* ascending (not strictly) order of their partition offset.
C2_PartitionsSortedByOffset ==
    DisksDone =>
        \A d \in 1..Len(Devices) :
            LET ps == Devices[d].partitions
            IN \A i, j \in 1..Len(ps) :
                  i < j => /\ IsSome(ps[i].partition)
                           /\ IsSome(ps[j].partition)
                           /\ OffsetOf(ps[i]) <= OffsetOf(ps[j])

\* A device whose two partitions the cache iterates in descending order of
\* offset, and which Disks::new lists in ascending order.
C2_Witness ==
    /\ DisksDone
    /\ \E d \in 1..Len(Devices) :
          LET ps == Devices[d].partitions
          IN /\ Len(ps) >= 2
             /\ OffsetOf(ps[1]) < OffsetOf(ps[2])
             /\ \E i, j \in 1..Len(CachedBlocks) :
                   i < j /\ CachedBlocks[i] = ps[2] /\ CachedBlocks[j] = ps[1]

\* C3: a Drive with no table-bearing block of its path produces no
\* DiskDevice; every DiskDevice has a decoded parent block with a table
\* facet whose drive is the device's drive path.
C3_NoTableNoDevice ==
    DisksDone =>
        /\ \A d \in 1..Len(Devices) :
              /\ HasTable(Devices[d].parent)
              /\ Devices[d].parent.drive = Devices[d].drive.path
              /\ Devices[d].parent \in Range(CachedBlocks)
              /\ Devices[d].drive \in Range(CachedDrives)
        /\ \A k \in 1..Len(CachedDrives) :
              ~HasParentBlock(CachedDrives[k]) => ~HasDevice(CachedDrives[k])

\* One drive has blocks and none with a table and gets no device, while
\* another drive gets its device.
C3_Witness ==
    /\ DisksDone
    /\ Len(Devices) >= 1
    /\ \E k \in 1..Len(CachedDrives) :
          /\ ~HasParentBlock(CachedDrives[k])
          /\ \E i \in 1..Len(CachedBlocks) : CachedBlocks[i].drive = CachedDrives[k].path
          /\ ~HasDevice(CachedDrives[k])

\* C6: when a drive has a table-bearing block and a block with neither a
\* table nor a partition facet, Disks::new does not crash, produces no
\* DiskDevice for that drive and produces the DiskDevice of every other
\* drive that has a table-bearing block.
C6_FacetlessChildSkipsOneDevice ==
    (/\ out.op = "Disks::new"
     /\ \E k \in 1..Len(CachedDrives) :
           HasParentBlock(CachedDrives[k]) /\ HasFacetlessBlock(CachedDrives[k]))
    => /\ out.res.tag = "Ok"
       /\ \A k \in 1..Len(CachedDrives) :
             IF HasParentBlock(CachedDrives[k]) /\ HasFacetlessBlock(CachedDrives[k])
             THEN ~HasDevice(CachedDrives[k])
             ELSE HasParentBlock(CachedDrives[k]) => HasDevice(CachedDrives[k])

\* The entities of a result, without their order.
DeviceSets(outcomes) ==
    {[tag |-> r.tag, devices |-> Range(r.devices)] : r \in outcomes}

BlockSet(r) == [tag |-> r.tag, items |-> IF r.tag = "Ok" THEN Range(r.items) ELSE {}]

\* C10: whatever order the cache iterates its objects in, get_drives,
\* get_blocks and Disks::new yield the same sets of Drives, Blocks and
\* DiskDevices.
C10_DecodingIsOrderIndependent ==
    \A p \in Perms(cache) :
        /\ Range(get_drives(p)) = Range(get_drives(cache))
        /\ BlockSet(get_blocks(p)) = BlockSet(get_blocks(cache))
        /\ DeviceSets(new_cache(p)) = DeviceSets(new_cache(cache))

(***************************************************************************)
(* Properties of get_encrypted_block (SpecEncrypted)                       *)
(***************************************************************************)
EncryptedCall == out.op = "get_encrypted_block"

\* The positions of `within` whose crypto_backing_device is E's path.
Counterparts(E, within) ==
    {i \in 1..Len(within) : within[i].crypto_backing_device = E.path}

First(S) == CHOOSE i \in S : \A j \in S : i <= j

\* C7: E.get_encrypted_block(within) is absent when E has no encrypted
\* facet; otherwise it is the first block of `within` whose
\* crypto_backing_device is E's path, and absent when there is none.
C7_FirstCounterpart ==
    EncryptedCall =>
        IF ~IsSome(out.self.encrypted) THEN out.res = None
        ELSE IF Counterparts(out.self, out.within) = {} THEN out.res = None
        ELSE out.res = Some(out.within[First(Counterparts(out.self, out.within))])

\* An encrypted E, and a slice that starts with a block that is no
\* counterpart and then holds two counterparts: the first of them returns.
C7_Witness ==
    /\ EncryptedCall
    /\ IsSome(out.self.encrypted)
    /\ Cardinality(Counterparts(out.self, out.within)) >= 2
    /\ 1 \notin Counterparts(out.self, out.within)
    /\ out.res = Some(out.within[2])

\* C8 as stated: for an encrypted-volume block E whose crypto_backing_device
\* is the path of a second block C, E.get_encrypted_block([C, E]) is C.
C8_BackingDeviceOfE ==
    (/\ EncryptedCall
     /\ IsSome(out.self.encrypted)
     /\ Len(out.within) = 2
     /\ out.within[2] = out.self
     /\ out.self.crypto_backing_device = out.within[1].path)
    => out.res = Some(out.within[1])

\* C8 amended: for an encrypted-volume block E and a second block C whose
\* crypto_backing_device is the path of E, E.get_encrypted_block([C, E])
\* is C.
C8_BackingDeviceOfC ==
    (/\ EncryptedCall
     /\ IsSome(out.self.encrypted)
     /\ Len(out.within) = 2
     /\ out.within[2] = out.self
     /\ out.within[1].crypto_backing_device = out.self.path)
    => out.res = Some(out.within[1])

\* E is encrypted, C names E as its backing device, E does not name C, and
\* the call on [C, E] returns C.
C8_Witness ==
    /\ EncryptedCall
    /\ IsSome(out.self.encrypted)
    /\ Len(out.within) = 2
    /\ out.within[2] = out.self
    /\ out.within[1].crypto_backing_device = out.self.path
    /\ out.self.crypto_backing_device # out.within[1].path
    /\ out.res = Some(out.within[1])

(***************************************************************************)
(* Properties of the decoders (SpecParse)                                  *)
(***************************************************************************)
\* The blocks that the last call yielded.
OutBlocks ==
    IF out.op = "get_blocks" THEN Range(out.res.items)
    ELSE IF out.op = "get_block" /\ out.res.tag = "Some" THEN {out.res.block}
    ELSE {}

\* The cached object of a path carries the Loop interface.
IsLoopObject(path) ==
    \E i \in 1..Len(cache) : cache[i].path = path /\ IF_LOOP \in DOMAIN cache[i].objects

\* C1: an object whose interfaces include Loop decodes to no Block, whatever
\* else it carries, and no block that get_blocks or get_block yields comes
\* from such an object.
C1_LoopNeverDecoded ==
    /\ \A i \in 1..Len(cache) :
          IF_LOOP \in DOMAIN cache[i].objects
              => BlockParseFrom(cache[i].path, cache[i].objects) = Absent
    /\ \A b \in OutBlocks : ~IsLoopObject(b.path)

\* A loop object that carries Block and every facet beside a plain block:
\* get_blocks yields the plain block alone.
C1_Witness ==
    /\ out.op = "get_blocks"
    /\ Len(cache) = 2
    /\ \E i \in 1..Len(cache) :
          {IF_LOOP, IF_BLOCK, IF_PARTITION, IF_PARTITION_TABLE, IF_FILESYSTEM, IF_ENCRYPTED,
           IF_SWAPSPACE} \subseteq DOMAIN cache[i].objects
    /\ out.res.tag = "Ok"
    /\ Len(out.res.items) = 1
    /\ out.res.items[1].path = Sibling.path

\* C4: the partitions of every decoded partition table are in ascending
\* lexicographic order.
C4_TablePartitionsSorted ==
    \A b \in OutBlocks :
        HasTable(b) =>
            LET ps == Unwrap(b.table).partitions
            IN \A i, j \in 1..Len(ps) : i < j => StrLeq(ps[i], ps[j])

\* A table of three paths that the bus lists in another order than the
\* decoded one.
C4_Witness ==
    /\ out.op = "get_block"
    /\ out.res.tag = "Some"
    /\ HasTable(out.res.block)
    /\ Unwrap(out.res.block.table).partitions = <<BlockPath(1), BlockPath10, BlockPath(2)>>
    /\ cache[1].objects[IF_PARTITION_TABLE]["Partitions"]
          = VArr(<<VStr(BlockPath(2)), VStr(BlockPath10), VStr(BlockPath(1))>>)

\* C5: Block decoding is total: whatever the properties of an object are,
\* get_block and get_blocks finish with a Block or with none; they never
\* abort.
C5_BlockDecodingIsTotal ==
    /\ out.op = "get_block" => out.res.tag \in {"None", "Some"}
    /\ out.op = "get_blocks" => out.res.tag = "Ok"

\* The graphs that one more unrecognized key, or one more unrecognized
\* interface, makes of the graph c.
ExtraKeys == {"Unrecognized", "Drive", "Table", "Offset", "Active", "Partitions"}

ExtraValues == {VStr(EmptyString), VStr(BlockPath(2)), VU64(1), VArr(<<>>), VOther}

ExtraInterfaces == {IF_DRIVE_ATA, "org.freedesktop.UDisks2.Block.LVM2"}

WithUnrecognizedKey(c) ==
    UNION {UNION {{[c EXCEPT ![i].objects[f] = (key :> value) @@ @] :
                      key \in (ExtraKeys \ RecognizedKeys(f)) \ DOMAIN c[i].objects[f],
                      value \in ExtraValues} :
                  f \in DOMAIN c[i].objects} :
           i \in 1..Len(c)}

WithUnrecognizedInterface(c) ==
    UNION {{[c EXCEPT ![i].objects = (f :> props) @@ @] :
               f \in ExtraInterfaces \ DOMAIN c[i].objects,
               props \in {NoProperties, "Drive" :> VStr(EmptyString)}} :
           i \in 1..Len(c)}

\* C9: one more unrecognized key in any interface of any object, or one more
\* unrecognized interface on any object, changes nothing in what get_drives,
\* get_blocks, get_drive and get_block return, for that object and for the
\* others.
C9_UnrecognizedIsIgnored ==
    \A g \in WithUnrecognizedKey(cache) \cup WithUnrecognizedInterface(cache) :
        /\ out.op = "get_blocks" => get_blocks(g) = out.res
        /\ out.op = "get_drives" => get_drives(g) = out.res
        /\ out.op = "get_block" => get_block(g, out.path) = out.res
        /\ out.op = "get_drive" => get_drive(g, out.path) = out.res

\* Two objects decode to two blocks, one of them with every facet, and the
\* graph has room for an unrecognized key in each of its interfaces.
C9_Witness ==
    /\ out.op = "get_blocks"
    /\ out.res.tag = "Ok"
    /\ Len(out.res.items) = 2
    /\ \E i \in 1..Len(cache) :
          DOMAIN cache[i].objects =
              {IF_BLOCK, IF_PARTITION, IF_PARTITION_TABLE, IF_FILESYSTEM, IF_ENCRYPTED,
               IF_SWAPSPACE, IF_DRIVE}
    /\ WithUnrecognizedKey(cache) # {}


(***************************************************************************)
(* Properties of S.M.A.R.T. attributes (SpecSmartAttribute)                *)
(***************************************************************************)
\* C11: assessment() applies the threshold rule only when normalized, worst
\* and threshold are all three strictly positive (normalized <= threshold is
\* Failing, else worst <= threshold is FailedInPast, else Ok); when any of
\* the three is zero or negative the result is Ok.
C11_AssessmentNeedsAllThreePositive ==
    out.op = "assessment" =>
        LET a == out.self
        IN IF a.normalized > 0 /\ a.worst > 0 /\ a.threshold > 0
           THEN out.res = (IF a.normalized <= a.threshold THEN "Failing"
                           ELSE IF a.worst <= a.threshold THEN "FailedInPast"
                           ELSE "Ok")
           ELSE out.res = "Ok"

\* C15: decoding a raw attribute is total; a unit tag outside 1..4 gives no
\* pretty value, a tag in 1..4 gives the raw pretty value with the matching
\* unit; id, name, flags, value, worst and threshold pass through.
C15_UnitTagOutsideRangeIsAbsent ==
    out.op = "into" =>
        LET raw == out.arg
            a == out.res
        IN /\ a.id = raw.id /\ a.name = raw.name /\ a.flags = raw.flags
           /\ a.normalized = raw.value /\ a.worst = raw.worst
           /\ a.threshold = raw.threshold
           /\ a.pretty = (CASE raw.pretty_unit = 1 ->
                                 Some([value |-> raw.pretty_value, unit |-> "Dimensionless"])
                            [] raw.pretty_unit = 2 ->
                                 Some([value |-> raw.pretty_value, unit |-> "Milliseconds"])
                            [] raw.pretty_unit = 3 ->
                                 Some([value |-> raw.pretty_value, unit |-> "Sectors"])
                            [] raw.pretty_unit = 4 ->
                                 Some([value |-> raw.pretty_value, unit |-> "Millikelvin"])
                            [] OTHER -> None)

(***************************************************************************)
(* Properties of smart_attributes (SpecSmart)                              *)
(***************************************************************************)
SmartCalled == out # NoCall

\* The i-th round trip was for `member` and the bus answered `answer`.
Answered(i, member, answer) ==
    /\ Len(out.sent) >= i
    /\ out.sent[i].member = member
    /\ out.sent[i].answer = answer

\* The i-th round trip read a non-zero last-updated timestamp.
AnsweredUpdated(i) ==
    /\ Len(out.sent) >= i
    /\ out.sent[i].member = UPDATED
    /\ out.sent[i].answer # BusErr
    /\ out.sent[i].answer.value # 0

\* C12: with supported = true and enabled = false the result is NotEnabled
\* and no attribute fetch is sent; SmartGetAttributes is only ever sent
\* after supported = true, enabled = true and a non-zero last-updated
\* timestamp have been read, in the blocking and in the async client.
C12_NotEnabledFetchesNothing ==
    SmartCalled =>
        /\ (Answered(1, SUPPORTED, BusOk(TRUE)) /\ Answered(2, SMART_ENABLED, BusOk(FALSE)))
              => /\ out.res = SmartOk([kind |-> "NotEnabled"])
                 /\ \A i \in 1..Len(out.sent) : out.sent[i].member # GET_ATTRS
        /\ \A i \in 1..Len(out.sent) :
              out.sent[i].member = GET_ATTRS
                  => \E a, b, c \in 1..(i - 1) :
                        /\ Answered(a, SUPPORTED, BusOk(TRUE))
                        /\ Answered(b, SMART_ENABLED, BusOk(TRUE))
                        /\ AnsweredUpdated(c)

\* The async client returns NotEnabled after two round trips.
C12_Witness ==
    /\ SmartCalled
    /\ out.mode = "nonblock"
    /\ out.pc = "done"
    /\ Answered(1, SUPPORTED, BusOk(TRUE))
    /\ Answered(2, SMART_ENABLED, BusOk(FALSE))
    /\ Len(out.sent) = 2
    /\ out.res = SmartOk([kind |-> "NotEnabled"])

\* C13: with supported = true, enabled = true and last-updated = 0 the
\* result is the value NotUpdated: no error, and not Enabled.
C13_ZeroTimestampIsNotUpdated ==
    (/\ SmartCalled
     /\ Answered(1, SUPPORTED, BusOk(TRUE))
     /\ Answered(2, SMART_ENABLED, BusOk(TRUE))
     /\ Answered(3, UPDATED, BusOk(0)))
    => /\ out.pc = "done"
       /\ out.res = SmartOk([kind |-> "NotUpdated"])

C13_Witness ==
    /\ SmartCalled
    /\ out.mode = "blocking"
    /\ Answered(1, SUPPORTED, BusOk(TRUE))
    /\ Answered(2, SMART_ENABLED, BusOk(TRUE))
    /\ Answered(3, UPDATED, BusOk(0))
    /\ Len(out.sent) = 3
    /\ out.res = SmartOk([kind |-> "NotUpdated"])

\* C14: the stages are read in the order supported, enabled, last-updated,
\* and the first that fails ends the call: supported = false is
\* NotSupported with nothing else read; a successful result is Enabled(data)
\* exactly when supported = true, enabled = true and last-updated is
\* non-zero, and then data.updated is the timestamp read.
C14_StagesInOrder ==
    SmartCalled =>
        /\ Len(out.sent) >= 1 => out.sent[1].member = SUPPORTED
        /\ Len(out.sent) >= 2 => out.sent[2].member = SMART_ENABLED
        /\ Len(out.sent) >= 3 => out.sent[3].member = UPDATED
        /\ Answered(1, SUPPORTED, BusOk(FALSE))
              => Len(out.sent) = 1 /\ out.res = SmartOk([kind |-> "NotSupported"])
        /\ Answered(2, SMART_ENABLED, BusOk(FALSE)) => Len(out.sent) = 2
        /\ Answered(3, UPDATED, BusOk(0)) => Len(out.sent) = 3
        /\ (out.pc = "done" /\ out.res # SmartErr)
              => /\ Unwrap(out.res).value.kind = "Enabled"
                    <=> (/\ Answered(1, SUPPORTED, BusOk(TRUE))
                         /\ Answered(2, SMART_ENABLED, BusOk(TRUE))
                         /\ AnsweredUpdated(3))
                 /\ Unwrap(out.res).value.kind = "Enabled"
                    => Unwrap(out.res).value.data.updated = out.sent[3].answer.value

\* Enabled(data) after all eleven round trips, with the timestamp read.
C14_Witness ==
    /\ SmartCalled
    /\ out.pc = "done"
    /\ out.res # SmartErr
    /\ Unwrap(out.res).value.kind = "Enabled"
    /\ Len(out.sent) = 4 + Len(DataMembers)
    /\ Unwrap(out.res).value.data.updated = MaxUpdated
    /\ Len(Unwrap(out.res).value.data.attributes) >= 1

(***************************************************************************)
(* Properties of the extractors (SpecExtract)                              *)
(***************************************************************************)
\* The value is a sequence of integers that each fit a byte.
IsByteSequence(v) ==
    v.k = "arr" /\ \A i \in 1..Len(v.a) : v.a[i].k = "u64" /\ v.a[i].n \in 0..(U8Modulus - 1)

\* The bytes of such a value, the last one left out when it is 0.
BytesWithoutNul(v) ==
    LET bytes == [i \in 1..Len(v.a) |-> v.a[i].n]
    IN IF bytes # <<>> /\ bytes[Len(bytes)] = 0
       THEN SubSeq(bytes, 1, Len(bytes) - 1)
       ELSE bytes

\* C16: on a sequence of byte-sized integers the byte-array extractor
\* returns the UTF-8 string of the bytes, the last byte dropped exactly when
\* it is 0 and no other; "/dev\0" gives "/dev"; a value that is no sequence,
\* or bytes that are not UTF-8, give absent.
C16_ByteArrayDropsOneNul ==
    out.op = "get_byte_array" =>
        /\ IsByteSequence(out.arg)
              => out.res = (IF Utf8Valid(BytesWithoutNul(out.arg))
                            THEN Some(BytesWithoutNul(out.arg))
                            ELSE None)
        /\ out.arg = ByteArrayValue(DevNul) => out.res = Some(<<47, 100, 101, 118>>)
        /\ out.arg.k # "arr" => out.res = None

\* A byte array that ends with two NULs keeps the first of them.
C16_Witness ==
    /\ out.op = "get_byte_array"
    /\ out.arg = ByteArrayValue(<<47, 0, 0>>)
    /\ out.res = Some(<<47, 0>>)

\* C17: the string-list extractor returns the elements that are non-empty
\* strings, in their order, and absent when the value is no sequence or
\* when nothing is kept.
C17_StringListDropsEmptyStrings ==
    out.op = "get_string_array" =>
        IF out.arg.k = "arr"
        THEN LET NonEmptyString(item) == item.k = "str" /\ item.s # EmptyString
                 kept == SelectSeq(out.arg.a, NonEmptyString)
             IN out.res = (IF kept = <<>> THEN None
                           ELSE Some([i \in 1..Len(kept) |-> kept[i].s]))
        ELSE out.res = None

(***************************************************************************)
(* Properties of mount, unmount and eject (SpecActions)                    *)
(***************************************************************************)
\* C18: mount and unmount on a block with no filesystem facet return NoFS
\* with no proxy made and nothing sent; a failure of the bus call comes
\* back as the DBUS error, which is not NoFS, and the call is sent once.
C18_NoFSBeforeAnyBusCall ==
    out.op \in {"mount", "unmount"} =>
        /\ ~has_fs(out.block)
              => out.res = ErrNoFS /\ out.sent = <<>> /\ out.proxy = None
        /\ Len(out.sent) <= 1
        /\ (Len(out.sent) = 1 /\ out.sent[1].answer = BusErr) => out.res = ErrDBUS
        /\ out.res = ErrNoFS => ~has_fs(out.block)

\* mount on a block without a filesystem: NoFS, nothing sent.
C18_Witness ==
    /\ out.op = "mount"
    /\ ~has_fs(out.block)
    /\ out.res = ErrNoFS
    /\ out.sent = <<>>

\* C20: the options that mount, unmount and eject send carry
\* auth.no_user_interaction = true exactly when `interactive` is false.
C20_NoUserInteractionUnlessInteractive ==
    (out.op \in {"mount", "unmount", "eject"} /\ Len(out.sent) = 1) =>
        LET options == out.sent[1].options
        IN ~out.interactive
              <=> (/\ AUTH_NO_USER_INTERACTION \in DOMAIN options
                   /\ options[AUTH_NO_USER_INTERACTION] = TRUE)

(***************************************************************************)
(* Properties of update (SpecParse)                                       *)
(***************************************************************************)
\* C19: the cache is one snapshot, replaced as a whole. A successful
\* update() leaves the cache equal to the graph that the bus answered, so
\* that no object of the earlier snapshot that the graph does not name
\* stays visible; a failed update() and the four getters leave the cache as
\* it is, and each getter answers from the one cached graph.
C19_SnapshotReplacedWholesale ==
    [][/\ (out'.op = "update" /\ out'.res = "Ok")
             => /\ cache' = out'.objects
                /\ \A path \in Paths(cache) \ Paths(out'.objects) :
                      /\ get_block(cache', path) = Absent
                      /\ get_drive(cache', path) = None
                      /\ \A b \in Range(get_blocks(cache').items) : b.path # path
                      /\ \A d \in Range(get_drives(cache')) : d.path # path
       /\ (out'.op = "update" /\ out'.res = "Err") => cache' = cache
       /\ out'.op = "get_drives" => cache' = cache /\ out'.res = get_drives(cache)
       /\ out'.op = "get_blocks" => cache' = cache /\ out'.res = get_blocks(cache)
       /\ out'.op = "get_drive"
             => cache' = cache /\ out'.res = get_drive(cache, out'.path)
       /\ out'.op = "get_block"
             => cache' = cache /\ out'.res = get_block(cache, out'.path)]_vars

\* An update whose answer is one object that decodes to no block: the
\* cache is that object alone and no block is visible.
C19_Witness ==
    /\ out.op = "update"
    /\ out.res = "Ok"
    /\ Len(out.objects) = 1
    /\ cache = out.objects
    /\ IF_LOOP \in DOMAIN cache[1].objects
    /\ get_blocks(cache) = [tag |-> "Ok", items |-> <<>>]

(***************************************************************************)
(* Properties of the swapspace flag (SpecParse)                            *)
(***************************************************************************)
\* The interfaces of the cached object of a path.
ObjectsAt(path) == (CHOOSE e \in Range(cache) : e.path = path).objects

\* A bus boolean reads as set when it is an integer other than zero.
ReadsAsSet(v) == v.k = "u64" /\ v.n # 0

\* C21: a decoded Block has no swapspace flag exactly when its object has no
\* Swapspace interface; with the interface the flag is there and is the
\* boolean reading of Active, or false when Active is missing.
C21_SwapspaceFollowsInterface ==
    \A b \in OutBlocks :
        LET objects == ObjectsAt(b.path)
        IN IF IF_SWAPSPACE \notin DOMAIN objects THEN b.swapspace = None
           ELSE /\ IsSome(b.swapspace)
                /\ Unwrap(b.swapspace) =
                      (/\ "Active" \in DOMAIN objects[IF_SWAPSPACE]
                       /\ ReadsAsSet(objects[IF_SWAPSPACE]["Active"]))

\* A block whose Swapspace interface has no Active key decodes with the flag
\* present and false.
C21_Witness ==
    /\ out.op = "get_block"
    /\ out.res.tag = "Some"
    /\ IF_SWAPSPACE \in DOMAIN ObjectsAt(out.res.block.path)
    /\ "Active" \notin DOMAIN ObjectsAt(out.res.block.path)[IF_SWAPSPACE]
    /\ out.res.block.swapspace = Some(FALSE)

(***************************************************************************)
(* Properties of the grouping of blocks under drives (SpecDisks)           *)
(***************************************************************************)
\* The decoded blocks whose drive is the drive of a device.
BlocksOfDevice(device) ==
    {b \in Range(CachedBlocks) : b.drive = device.drive.path}

\* C22: every decoded Block whose drive is the drive of a DiskDevice is in
\* that DiskDevice, a table-bearing block as its parent and any other block
\* among its partitions; none is lost.
C22_NoBlockOfDeviceLost ==
    DisksDone =>
        \A d \in 1..Len(Devices) :
            \A b \in BlocksOfDevice(Devices[d]) :
                IF HasTable(b) THEN b = Devices[d].parent
                ELSE b \in Range(Devices[d].partitions)

\* The blocks of a device, one slot each: the parent, then the partitions.
Slots(device) == <<device.parent>> \o device.partitions

\* The number of decoded table-bearing blocks of a drive path.
TablesOf(path) ==
    Cardinality({i \in 1..Len(CachedBlocks) :
                    CachedBlocks[i].drive = path /\ HasTable(CachedBlocks[i])})

\* C24: Disks::new emits at most one DiskDevice per Drive, every block of a
\* DiskDevice (parent or partition) has the drive path of that device, and
\* no decoded Block is in two DiskDevices or twice in one, also when a drive
\* has several table-bearing blocks.
C24_DevicesPartitionTheBlocks ==
    DisksDone =>
        /\ \A d, e \in 1..Len(Devices) :
              Devices[d].drive.path = Devices[e].drive.path => d = e
        /\ \A d \in 1..Len(Devices) :
              /\ Devices[d].drive \in Range(CachedDrives)
              /\ \A i \in 1..Len(Slots(Devices[d])) :
                    /\ Slots(Devices[d])[i].drive = Devices[d].drive.path
                    /\ Slots(Devices[d])[i] \in Range(CachedBlocks)
        /\ \A d, e \in 1..Len(Devices) :
              \A i \in 1..Len(Slots(Devices[d])), j \in 1..Len(Slots(Devices[e])) :
                  Slots(Devices[d])[i].path = Slots(Devices[e])[j].path => d = e /\ i = j

\* Two devices, one of them of a drive with two table-bearing blocks.
C24_Witness ==
    /\ DisksDone
    /\ Len(Devices) = 2
    /\ \E d \in 1..Len(Devices) : TablesOf(Devices[d].drive.path) >= 2

(***************************************************************************)
(* Properties of the lookups (SpecParse)                                   *)
(***************************************************************************)
\* The blocks and the drives of a path that iteration yields.
BlocksAt(path) == {b \in Range(get_blocks(cache).items) : b.path = path}

DrivesAt(path) == {d \in Range(get_drives(cache)) : d.path = path}

\* C26: get_block(p) returns a block exactly when get_blocks yields a block
\* of path p, and then that block; get_drive(p) and get_drives likewise; a
\* path that is not in the cache, or whose object does not decode as that
\* kind, gives absent.
C26_LookupAgreesWithIteration ==
    /\ out.op = "get_block" =>
          IF BlocksAt(out.path) = {} THEN out.res = Absent
          ELSE /\ out.res.tag = "Some"
               /\ out.res.block.path = out.path
               /\ BlocksAt(out.path) = {out.res.block}
    /\ out.op = "get_drive" =>
          IF DrivesAt(out.path) = {} THEN out.res = None
          ELSE /\ IsSome(out.res)
               /\ Unwrap(out.res).path = out.path
               /\ DrivesAt(out.path) = {Unwrap(out.res)}

(***************************************************************************)
(* Properties of construction and failed refreshes (SpecLifecycle)         *)
(***************************************************************************)
\* The four getters answer the same on two caches.
SameAnswers(c, d) ==
    /\ get_drives(c) = get_drives(d)
    /\ get_blocks(c) = get_blocks(d)
    /\ \A path \in LookupPaths :
          /\ get_drive(c, path) = get_drive(d, path)
          /\ get_block(c, path) = get_block(d, path)

Refreshed == out.op \in {"new", "update"} /\ out.res = "Ok"

\* C25: a failed update() leaves the cache as it was, so that the getters
\* answer after it what they answered before; and new() gives no instance
\* when its refresh fails: the cache of every instance is an answer of the
\* bus.
C25_FailedRefreshChangesNothing ==
    [][/\ Refreshed' \/ SameAnswers(cache, cache')
       /\ (out'.op = "update" /\ out'.res = "Err") => (Live /\ cache' = cache)
       /\ Live' => cache' \in ManagedObjects]_vars

\* An instance whose last update() failed and whose cache still holds the
\* drive and the block that new() fetched.
C25_Witness ==
    /\ out = [op |-> "update", res |-> "Err"]
    /\ get_drives(cache) # <<>>
    /\ get_blocks(cache).items # <<>>

(***************************************************************************)
(* Properties of the joined fetches of the async client (SpecSmart)        *)
(***************************************************************************)
\* One of the seven aggregate fetches has been sent.
DataFetched == \E i \in 1..Len(out.sent) : out.sent[i].member \in Range(DataMembers)

ReturnedEnabled == out.res # None /\ out.res # SmartErr /\ Unwrap(out.res).value.kind = "Enabled"

\* C23: in the async smart_attributes the seven aggregate fetches are sent
\* together; nothing is returned while one of them is unanswered, whatever
\* the order of the answers; Enabled is returned only when all seven have
\* answered with a value, and holds those values; when one of them fails the
\* error is returned and no Enabled.
C23_JoinsAllSevenFetches ==
    (SmartCalled /\ out.mode = "nonblock" /\ DataFetched) =>
        LET answers == JoinAnswers(out.sent)
            failures == {i \in 1..Len(DataMembers) : answers[i] = BusErr}
            pending == {i \in 1..Len(DataMembers) : answers[i] = BusPending}
        IN /\ Len(out.sent) = 4 + Len(DataMembers)
           /\ \A i \in 1..Len(DataMembers) : out.sent[4 + i].member = DataMembers[i]
           /\ pending # {} => out.pc = "join" /\ out.res = None
           /\ pending = {} => out.pc = "done" /\ out.res # None
           /\ (pending = {} /\ failures # {})
                 => out.res = SmartErr /\ out.failed \in {DataMembers[i] : i \in failures}
           /\ (pending = {} /\ failures = {})
                 => /\ ReturnedEnabled
                    /\ LET data == Unwrap(out.res).value.data
                       IN /\ data.failing = answers[1].value
                          /\ data.time_powered_on = answers[2].value
                          /\ data.temperature = answers[3].value
                          /\ data.failing_attrs_count = answers[4].value
                          /\ data.past_failing_attrs_count = answers[5].value
                          /\ data.bad_sectors = answers[6].value
                          /\ data.status = SmartStatusParse(answers[7].value)
                          /\ data.updated = out.updated

\* The last fetch has answered and the one before it has failed while the
\* first is unanswered: nothing is returned yet.
C23_Witness ==
    /\ SmartCalled
    /\ out.mode = "nonblock"
    /\ out.pc = "join"
    /\ JoinAnswers(out.sent)[7] = BusOk("success")
    /\ JoinAnswers(out.sent)[6] = BusErr
    /\ JoinAnswers(out.sent)[1] = BusPending
    /\ out.res = None

(***************************************************************************)
(* Properties of the two clients side by side (SpecSmart)                  *)
(***************************************************************************)
\* The round trips that the bus answered with an error.
FailedTrips == {i \in 1..Len(out.sent) : out.sent[i].answer = BusErr}

\* What the answers of the bus decide, read in the order of the fetches up
\* to the first that ends the call; the client does not enter into it.
Decided ==
    IF FailedTrips # {}
    THEN [res |-> SmartErr,
          failed |-> out.sent[CHOOSE i \in FailedTrips : \A j \in FailedTrips : i <= j].member]
    ELSE IF out.sent[1].answer = BusOk(FALSE)
    THEN [res |-> SmartOk([kind |-> "NotSupported"]), failed |-> NoMember]
    ELSE IF out.sent[2].answer = BusOk(FALSE)
    THEN [res |-> SmartOk([kind |-> "NotEnabled"]), failed |-> NoMember]
    ELSE IF out.sent[3].answer = BusOk(0)
    THEN [res |-> SmartOk([kind |-> "NotUpdated"]), failed |-> NoMember]
    ELSE [res |-> SmartOk([kind |-> "Enabled",
                           data |-> SmartDataOf(out.sent[3].answer.value,
                                                out.sent[4].answer.value,
                                                [i \in 1..7 |-> out.sent[4 + i].answer])]),
          failed |-> NoMember]

\* C27: the blocking and the async smart_attributes return what the answers
\* of the bus decide, the same for both: the same SmartValue with the same
\* data, or the error of the same fetch, the first that fails; the blocking
\* client sends nothing after that fetch, the async client sends all seven
\* aggregate fetches even so.
C27_ClientsReturnTheSame ==
    (SmartCalled /\ out.pc = "done") =>
        /\ [res |-> out.res, failed |-> out.failed] = Decided
        /\ (out.mode = "blocking" /\ FailedTrips # {}) => FailedTrips = {Len(out.sent)}
        /\ (out.mode = "nonblock" /\ DataFetched) => Len(out.sent) = 4 + Len(DataMembers)

\* The async client returns the error of the temperature fetch although a
\* later fetch failed too, as the blocking client does, which stops there.
C27_Witness ==
    /\ SmartCalled
    /\ out.pc = "done"
    /\ out.mode = "nonblock"
    /\ FailedTrips = {7, 10}
    /\ out.res = SmartErr
    /\ out.failed = TEMPERATURE
====
